---------------------------- MODULE Spec2Model ----------------------------
(***************************************************************************)
(* A model of the tile scheduler and renderer of rust_one_weekend          *)
(* (src/src/render.rs): the ImageBlocker that cuts the image into blocks,  *)
(* the spiral dispatch list of render_frame, the pool of worker threads    *)
(* that trace the pixels of a block and send one PixelResult per pixel     *)
(* onto the Renderer's bounded channel, and the two consumer operations    *)
(* poll_results and stop_render; and of the tracer beneath it: the        *)
(* spheres of src/src/object.rs, the BVH traversal of src/src/bvhiter.rs   *)
(* and its copy in src/src/scene.rs, Scene::intersect, and the integrator  *)
(* functions ray_color and render_packet of render.rs, with the packet    *)
(* sphere test SphereSimd::intersect_packet of object.rs.                   *)
(*                                                                         *)
(* Scaling.  The source fixes block_width = block_height = 32              *)
(* (render.rs:33-34).  The model keeps the two equal, as the source does,  *)
(* and scales the value down to BlockDim so that images of several blocks  *)
(* stay small enough to enumerate.  Nothing in the blocker or the worker   *)
(* reads the value 32 other than through these two fields.                 *)
(***************************************************************************)
EXTENDS Integers, Sequences, FiniteSets, TLC

(***************************************************************************)
(* Bounds of the model.                                                    *)
(***************************************************************************)
\* Scaled value of block_width and block_height (32 in the source).
BlockDim == 2
\* Images of the block-partition specification: 0..MaxDim in each direction.
MaxDim == 8
\* Images of the concurrent renderer: 1..MaxWidth by 1..MaxHeight.
MaxWidth == 3
MaxHeight == 1
\* Threads of the pool (num_cpus::get() in the source).
NumThreads == 2
\* Threads that call poll_results / stop_render.
NumConsumers == 2
\* Calls of render_frame on one Renderer.
MaxFrames == 2
\* Outputs of the thread-local random generator: 0..MaxRng.
MaxRng == 1
\* Spheres a scene may hold: at most MaxObjects.
MaxObjects == 3

(***************************************************************************)
(* Program constants.                                                      *)
(***************************************************************************)
block_width == BlockDim
block_height == BlockDim
TRACE_PACKET_SIZE == 4
\* samples_per_pixel as the shipped callers pass it is a multiple of the
\* packet size; SamplesPerPixel is the value of the determinism test.
SamplesPerPixel == 8

None == [none |-> TRUE]

Max(a, b) == IF a >= b THEN a ELSE b
Min(a, b) == IF a <= b THEN a ELSE b
Abs(a) == IF a >= 0 THEN a ELSE -a

(***************************************************************************)
(* shared.rs: ceil_div                                                     *)
(***************************************************************************)
\* The division rounded down, which drops a partial last block.
floor_div(x, y) == x \div y
ceil_div(x, y) == (x + y - 1) \div y

(***************************************************************************)
(* render.rs: ImageBlocker                                                 *)
(***************************************************************************)
block_count_x(w) == ceil_div(w, block_width)
block_count_y(h) == ceil_div(h, block_height)

\* ImageBlocker::next for a given block_index: the RenderBlock, or None.
ImageBlockerNext(w, h, block_index) ==
    LET bcx == block_count_x(w)
        bcy == block_count_y(h)
    IN  IF block_index >= bcx * bcy
        THEN None
        ELSE LET block_x == block_index % bcx
                 block_y == block_index \div bcx
                 x == block_x * block_width
                 y == block_y * block_width
                 x_end == Min((block_x + 1) * block_width, w)
                 y_end == Min((block_y + 1) * block_height, h)
             IN  [x |-> x, y |-> y, width |-> x_end - x, height |-> y_end - y]

\* blocker.collect(): next() until None, block_index counting up from 0.
RECURSIVE ImageBlockerCollect(_, _, _, _)
ImageBlockerCollect(w, h, block_index, acc) ==
    LET rb == ImageBlockerNext(w, h, block_index)
    IN  IF rb = None THEN acc
        ELSE ImageBlockerCollect(w, h, block_index + 1, Append(acc, rb))

Blocks(w, h) == ImageBlockerCollect(w, h, 0, << >>)

(***************************************************************************)
(* spiral::ChebyshevIterator as render_frame uses it (render.rs:221): the  *)
(* iterator walks a square spiral around the centre, leg by leg (+x, +y,   *)
(* -x, -y), the layer growing by one after the fourth leg, and ends when   *)
(* the walk would reach Chebyshev distance max_distance.                   *)
(***************************************************************************)
ChebyshevStep(s) ==
    CASE s.leg = 0 ->
            [s EXCEPT !.x = s.x + 1,
                      !.leg = IF s.x + 1 = s.layer THEN 1 ELSE 0]
      [] s.leg = 1 ->
            [s EXCEPT !.y = s.y + 1,
                      !.leg = IF s.y + 1 = s.layer THEN 2 ELSE 1]
      [] s.leg = 2 ->
            [s EXCEPT !.x = s.x - 1,
                      !.leg = IF -(s.x - 1) = s.layer THEN 3 ELSE 2]
      [] OTHER ->
            [s EXCEPT !.y = s.y - 1,
                      !.leg = IF -(s.y - 1) = s.layer THEN 0 ELSE 3,
                      !.layer = IF -(s.y - 1) = s.layer
                                THEN s.layer + 1 ELSE s.layer]

RECURSIVE ChebyshevWalk(_, _, _)
ChebyshevWalk(s, max_distance, acc) ==
    IF Max(Abs(s.x), Abs(s.y)) >= max_distance THEN acc
    ELSE ChebyshevWalk(ChebyshevStep(s), max_distance,
                       Append(acc, <<s.x, s.y>>))

\* The sequence of (x, y) that ChebyshevIterator::new(cx, cy, radius) yields.
ChebyshevIterator(cx, cy, radius) ==
    LET offs == ChebyshevWalk([x |-> 0, y |-> 0, layer |-> 1, leg |-> 0],
                              radius, << >>)
    IN  [i \in 1..Len(offs) |-> <<cx + offs[i][1], cy + offs[i][2]>>]

(***************************************************************************)
(* render.rs: render_frame, lines 208-227: the spiral dispatch list        *)
(***************************************************************************)
SpiralRadius(bcx, bcy) == (Max(bcx, bcy) \div 2) + 1
center_x(bcx) == (bcx \div 2) - 1
center_y(bcy) == (bcy \div 2) - 1

\* The (block_x, block_y) the loop keeps: those inside the block grid.
RECURSIVE SpiralFilter(_, _, _, _, _)
SpiralFilter(pts, i, bcx, bcy, acc) ==
    IF i > Len(pts) THEN acc
    ELSE LET bx == pts[i][1]
             by == pts[i][2]
         IN  IF bx < 0 \/ bx >= bcx \/ by < 0 \/ by >= bcy
             THEN SpiralFilter(pts, i + 1, bcx, bcy, acc)
             ELSE SpiralFilter(pts, i + 1, bcx, bcy, Append(acc, <<bx, by>>))

SpiralCoords(w, h) ==
    LET bcx == block_count_x(w)
        bcy == block_count_y(h)
    IN  SpiralFilter(ChebyshevIterator(center_x(bcx), center_y(bcy),
                                       SpiralRadius(bcx, bcy)),
                     1, bcx, bcy, << >>)

\* spiral_blocks: blocks[block_y * block_count_x + block_x] per kept point.
SpiralBlocks(w, h) ==
    LET bcx == block_count_x(w)
        co == SpiralCoords(w, h)
        bl == Blocks(w, h)
    IN  [i \in 1..Len(co) |-> bl[co[i][2] * bcx + co[i][1] + 1]]

(***************************************************************************)
(* State                                                                   *)
(***************************************************************************)
VARIABLES
    image_width,       \* Renderer.image_width
    image_height,      \* Renderer.image_height
    channel,           \* the bounded channel: PixelResults sent, not yet received
    keep_rendering,    \* Renderer.keep_rendering
    rf_pc,             \* where the thread that calls render_frame is
    frames,            \* calls of render_frame so far
    frame_live,        \* not in the source: keep_rendering at the last call of render_frame
    blocks,            \* render_frame: blocks
    spiral_blocks,     \* render_frame: spiral_blocks
    queue,             \* tasks handed to the pool and not yet started
    atomic_ray_count,  \* render_frame: atomic_ray_count
    worker,            \* per pool thread: the block task it runs
    cons,              \* per consumer thread: its call of poll_results / stop_render
    collected,         \* determinism test: frames whose results were collected
    buffer_display_a,  \* determinism test: buffer_display_a
    buffer_display_b,  \* determinism test: buffer_display_b
    objects,           \* Scene.objects
    bvh,               \* Scene.bvh: None before build_bvh
    query,             \* the RayQuery of a closest-hit search
    bvh_iterator,      \* a BVHIterator of bvhiter.rs, None before new
    yielded,           \* what its calls of next() have returned so far
    scene_iterator,    \* a BVHIterator of scene.rs, None before new
    scene_yielded,     \* what its calls of next() have returned so far
    hit_result,        \* what Scene::intersect(query) returned, if called
    scalar_call,       \* a call of ray_color and what it returned
    packet_call,       \* a call of render_packet and what it returned
    pixel_sample,      \* the supersampling of one pixel by a block task
    sphere_test        \* a packet and a group of spheres under the two sphere tests

vars == <<image_width, image_height, channel, keep_rendering, rf_pc, frames,
          frame_live,
          blocks, spiral_blocks, queue, atomic_ray_count, worker, cons,
          collected, buffer_display_a, buffer_display_b,
          objects, bvh, query, bvh_iterator, yielded, scene_iterator,
          scene_yielded, hit_result, scalar_call, packet_call, pixel_sample,
          sphere_test>>

rendererVars == <<image_width, image_height>>
testVars == <<collected, buffer_display_a, buffer_display_b>>
frameVars == <<rf_pc, frames, frame_live, blocks, spiral_blocks>>
sceneVars == <<objects, bvh, query>>
traversalVars == <<bvh_iterator, yielded, scene_iterator, scene_yielded>>
integratorVars == <<scalar_call, packet_call, pixel_sample, sphere_test>>
tracerVars == <<sceneVars, traversalVars, hit_result, integratorVars>>

Threads == 1..NumThreads
Consumers == 1..NumConsumers
RngValues == 0..MaxRng

\* Renderer::new: bounded(image_width * image_height)
Capacity == image_width * image_height

\* `sent` counts the results the task has put on the channel (line 296); it
\* is not a variable of the source and no action reads it.
IdleWorker == [pc |-> "idle", block |-> None, index |-> 0, result |-> None,
               ray_count |-> 0, loaded |-> FALSE, sent |-> 0]
\* `results` is the length of the Vec that poll_results fills: the claims
\* about the call read how many results it returns, not which.
IdleConsumer == [pc |-> "idle", limit |-> 0, results |-> 0]

\* main.rs: vec![0; width * height]
EmptyBuffer(w, h) == [i \in 0..(w * h - 1) |-> 0]

\* Renderer::new, for a given image size.
RendererNew(w, h) ==
    /\ image_width = w
    /\ image_height = h
    /\ channel = << >>
    /\ keep_rendering = TRUE
    /\ frames = 0
    /\ frame_live = TRUE
    /\ blocks = << >>
    /\ spiral_blocks = << >>
    /\ queue = << >>
    /\ atomic_ray_count = 0
    /\ worker = [t \in Threads |-> IdleWorker]
    /\ cons = [c \in Consumers |-> IdleConsumer]
    /\ collected = 0
    /\ buffer_display_a = EmptyBuffer(w, h)
    /\ buffer_display_b = EmptyBuffer(w, h)

\* The renderer's scene is read through PixelColor only: no ray query is
\* open in the specifications of the scheduler.
NoQuery ==
    /\ objects = << >>
    /\ bvh = None
    /\ query = None
    /\ bvh_iterator = None
    /\ yielded = << >>
    /\ scene_iterator = None
    /\ scene_yielded = << >>
    /\ hit_result = None
    /\ scalar_call = None
    /\ packet_call = None
    /\ pixel_sample = None
    /\ sphere_test = None

Init ==
    /\ \E w \in 1..MaxWidth, h \in 1..MaxHeight : RendererNew(w, h)
    /\ rf_pc = "idle"
    /\ NoQuery

(***************************************************************************)
(* render_frame: the calling thread                                        *)
(***************************************************************************)
\* Lines 204-235: build the dispatch list and hand one task per entry to
\* the pool.
RenderFrameStart ==
    /\ rf_pc = "idle"
    /\ frames < MaxFrames
    /\ blocks' = Blocks(image_width, image_height)
    /\ spiral_blocks' = SpiralBlocks(image_width, image_height)
    /\ queue' = spiral_blocks'
    /\ atomic_ray_count' = 0
    /\ frames' = frames + 1
    /\ frame_live' = keep_rendering
    /\ rf_pc' = "scoped"
    /\ UNCHANGED <<rendererVars, tracerVars, channel, keep_rendering, worker, cons, testVars>>

\* Line 304: threadpool.scoped returns when every task has run; the ray
\* count is read for the report (line 307) and goes out of scope.
RenderFrameEnd ==
    /\ rf_pc = "scoped"
    /\ queue = << >>
    /\ \A t \in Threads : worker[t].pc = "idle"
    /\ rf_pc' = "idle"
    /\ atomic_ray_count' = 0
    /\ UNCHANGED <<rendererVars, tracerVars, channel, keep_rendering, frames, frame_live, blocks,
                   spiral_blocks, queue, worker, cons, testVars>>

(***************************************************************************)
(* render_frame: one block task on a pool thread, lines 236-302            *)
(***************************************************************************)
\* The pool's threads are interchangeable: the idle thread of lowest number
\* takes the next task.
FirstIdleThread(t) == \A u \in Threads : u < t => worker[u].pc # "idle"

\* A task that does not look at the flag.
LoadKeepRenderingIgnored == TRUE
\* self.keep_rendering.load()
LoadKeepRendering == keep_rendering

num_pixels(rb) == rb.width * rb.height

\* Lines 244-246: the pixel of local index `index` of block rb.
PixelX(rb, index) == rb.x + (index % rb.width)
\* The row taken by dividing by the block's height instead of its width.
PixelYByHeight(rb, index) == rb.y + ((index \div rb.height) % rb.height)
PixelY(rb, index) == rb.y + ((index \div rb.width) % rb.height)

\* Rays counted for one pixel: every packet adds its live rays at depth one
\* (line 131); deeper bounces, which add more, are not modelled here.
PacketsPerPixel == SamplesPerPixel \div TRACE_PACKET_SIZE
RaysPerPixel == PacketsPerPixel * TRACE_PACKET_SIZE

\* The colour accumulated for a pixel from the draws of the thread's
\* generator (rand::thread_rng(), line 240): the draws are the only input
\* that differs between two evaluations of the same pixel.
PixelColor(x, y, r) == r

\* After the pixel at `index`: the next pixel, or the end of the task.
Advance(w) ==
    IF w.index + 1 < num_pixels(w.block)
    THEN [w EXCEPT !.pc = "pixel", !.index = w.index + 1, !.result = None]
    ELSE [w EXCEPT !.pc = "finish", !.index = w.index + 1, !.result = None]

\* Lines 236-241: a pool thread takes the next task and checks the flag.
TaskStart(t) ==
    /\ rf_pc = "scoped"
    /\ worker[t].pc = "idle"
    /\ FirstIdleThread(t)
    /\ queue # << >>
    /\ LET rb == Head(queue)
           go == LoadKeepRendering
       IN  worker' = [worker EXCEPT ![t] =
                        [pc |-> IF go /\ num_pixels(rb) > 0
                                THEN "pixel" ELSE "finish",
                         block |-> rb, index |-> 0, result |-> None,
                         ray_count |-> 0, loaded |-> go, sent |-> 0]]
    /\ queue' = Tail(queue)
    /\ UNCHANGED <<rendererVars, tracerVars, channel, keep_rendering, frameVars,
                   atomic_ray_count, cons, testVars>>

\* Lines 242-295: trace one pixel, then check the flag again.
TracePixel(t) ==
    /\ worker[t].pc = "pixel"
    /\ \E r \in RngValues :
         LET w == worker[t]
             x == PixelX(w.block, w.index)
             y == PixelY(w.block, w.index)
             go == LoadKeepRendering
             traced == [w EXCEPT !.ray_count = w.ray_count + RaysPerPixel,
                                 !.loaded = go]
         IN  worker' = [worker EXCEPT ![t] =
                          IF go
                          THEN [traced EXCEPT
                                  !.pc = "send",
                                  !.result = [x |-> x, y |-> y,
                                              color |-> PixelColor(x, y, r)]]
                          ELSE Advance(traced)]
    /\ UNCHANGED <<rendererVars, tracerVars, channel, keep_rendering, frameVars, queue,
                   atomic_ray_count, cons, testVars>>

\* Line 296: channel_sender.send(result); blocks while the channel is full.
Send(t) ==
    /\ worker[t].pc = "send"
    /\ Len(channel) < Capacity
    /\ channel' = Append(channel, worker[t].result)
    /\ worker' = [worker EXCEPT ![t] =
                     Advance([worker[t] EXCEPT !.sent = worker[t].sent + 1])]
    /\ UNCHANGED <<rendererVars, tracerVars, keep_rendering, frameVars, queue,
                   atomic_ray_count, cons, testVars>>

\* A task that ends by emptying the scene's primitive collection.
FinishClearing(t) ==
    /\ worker[t].pc = "finish"
    /\ atomic_ray_count' = atomic_ray_count + worker[t].ray_count
    /\ worker' = [worker EXCEPT ![t] = IdleWorker]
    /\ objects' = << >>
    /\ UNCHANGED <<rendererVars, bvh, query, traversalVars, hit_result,
                   integratorVars, channel, keep_rendering, frameVars, queue,
                   cons, testVars>>
\* Line 300: atomic_ray_count.fetch_add(ray_count); the task ends.
Finish(t) ==
    /\ worker[t].pc = "finish"
    /\ atomic_ray_count' = atomic_ray_count + worker[t].ray_count
    /\ worker' = [worker EXCEPT ![t] = IdleWorker]
    /\ UNCHANGED <<rendererVars, tracerVars, channel, keep_rendering, frameVars, queue,
                   cons, testVars>>

(***************************************************************************)
(* poll_results, lines 320-332                                             *)
(***************************************************************************)
\* The consumer threads are interchangeable: the idle one of lowest number
\* makes the next call.
FirstIdleConsumer(c) == \A d \in Consumers : d < c => cons[d].pc # "idle"

PollStart(c) ==
    /\ cons[c].pc = "idle"
    /\ FirstIdleConsumer(c)
    /\ cons' = [cons EXCEPT ![c] = [pc |-> "poll_check",
                                    limit |-> image_width * image_height,
                                    results |-> 0]]
    /\ UNCHANGED <<rendererVars, tracerVars, channel, keep_rendering, frameVars, queue,
                   atomic_ray_count, worker, testVars>>

\* while !self.channel_receiver.is_empty()
PollCheck(c) ==
    /\ cons[c].pc = "poll_check"
    /\ cons' = [cons EXCEPT ![c].pc = IF channel = << >>
                                       THEN "poll_done" ELSE "poll_recv"]
    /\ UNCHANGED <<rendererVars, tracerVars, channel, keep_rendering, frameVars, queue,
                   atomic_ray_count, worker, testVars>>

\* recv().unwrap(): blocks while the channel is empty.
PollRecv(c) ==
    /\ cons[c].pc = "poll_recv"
    /\ channel # << >>
    /\ channel' = Tail(channel)
    /\ cons' = [cons EXCEPT ![c] =
                  [pc |-> IF cons[c].limit - 1 = 0
                          THEN "poll_done" ELSE "poll_check",
                   limit |-> cons[c].limit - 1,
                   results |-> cons[c].results + 1]]
    /\ UNCHANGED <<rendererVars, tracerVars, keep_rendering, frameVars, queue,
                   atomic_ray_count, worker, testVars>>

\* The call returns `results` to its caller.
PollReturn(c) ==
    /\ cons[c].pc = "poll_done"
    /\ cons' = [cons EXCEPT ![c] = IdleConsumer]
    /\ UNCHANGED <<rendererVars, tracerVars, channel, keep_rendering, frameVars, queue,
                   atomic_ray_count, worker, testVars>>

(***************************************************************************)
(* stop_render, lines 335-342                                              *)
(***************************************************************************)
\* self.keep_rendering.store(false)
StopStart(c) ==
    /\ cons[c].pc = "idle"
    /\ FirstIdleConsumer(c)
    /\ keep_rendering' = FALSE
    /\ cons' = [cons EXCEPT ![c].pc = "stop_check"]
    /\ UNCHANGED <<rendererVars, tracerVars, channel, frameVars, queue,
                   atomic_ray_count, worker, testVars>>

\* while !self.channel_receiver.is_empty()
StopCheck(c) ==
    /\ cons[c].pc = "stop_check"
    /\ cons' = [cons EXCEPT ![c].pc = IF channel = << >>
                                       THEN "stop_done" ELSE "stop_recv"]
    /\ UNCHANGED <<rendererVars, tracerVars, channel, keep_rendering, frameVars, queue,
                   atomic_ray_count, worker, testVars>>

\* let _ = self.channel_receiver.recv(): blocks while the channel is empty.
StopRecv(c) ==
    /\ cons[c].pc = "stop_recv"
    /\ channel # << >>
    /\ channel' = Tail(channel)
    /\ cons' = [cons EXCEPT ![c].pc = "stop_check"]
    /\ UNCHANGED <<rendererVars, tracerVars, keep_rendering, frameVars, queue,
                   atomic_ray_count, worker, testVars>>

\* stop_render returns.
StopReturn(c) ==
    /\ cons[c].pc = "stop_done"
    /\ cons' = [cons EXCEPT ![c] = IdleConsumer]
    /\ UNCHANGED <<rendererVars, tracerVars, channel, keep_rendering, frameVars, queue,
                   atomic_ray_count, worker, testVars>>

(***************************************************************************)
(* The concurrent renderer: one thread calling render_frame, the pool, and *)
(* the consumer threads.                                                   *)
(***************************************************************************)
WorkerStep == \E t \in Threads :
                 TaskStart(t) \/ TracePixel(t) \/ Send(t) \/ Finish(t)
PollStep == \E c \in Consumers :
               PollStart(c) \/ PollCheck(c) \/ PollRecv(c) \/ PollReturn(c)
StopStep == \E c \in Consumers :
               StopStart(c) \/ StopCheck(c) \/ StopRecv(c) \/ StopReturn(c)

Next ==
    \/ RenderFrameStart
    \/ RenderFrameEnd
    \/ WorkerStep
    \/ PollStep
    \/ StopStep

Spec == Init /\ [][Next]_vars

(***************************************************************************)
(* The determinism test (main.rs, tests::test_determnism): render a frame, *)
(* collect its results into buffer_display_a, render again on the same     *)
(* Renderer, collect into buffer_display_b, compare.  The test is written  *)
(* against a render_frame that takes the channel as an argument; here it   *)
(* collects from the Renderer's own channel, which is what render.rs       *)
(* offers.  No consumer runs during a frame and stop is never requested.   *)
(***************************************************************************)
\* main.rs:248: index = pixel.0 + pixel.1 * width
PixelIndex(x, y) == x + y * image_width

\* main.rs:246-251: write every collected pixel into the buffer, in order.
RECURSIVE Composite(_, _, _)
Composite(buffer, packets, i) ==
    IF i > Len(packets) THEN buffer
    ELSE Composite([buffer EXCEPT ![PixelIndex(packets[i].x, packets[i].y)] =
                                      packets[i].color],
                   packets, i + 1)

\* main.rs:244 / 257: render_worker.render_frame(..)
TestRenderFrame ==
    /\ collected = frames
    /\ RenderFrameStart

\* main.rs:245-251 / 258-264: collect what the frame sent.
TestCollect ==
    /\ rf_pc = "idle"
    /\ frames = collected + 1
    /\ collected' = collected + 1
    /\ channel' = << >>
    /\ IF collected = 0
       THEN /\ buffer_display_a' = Composite(buffer_display_a, channel, 1)
            /\ UNCHANGED buffer_display_b
       ELSE /\ buffer_display_b' =
                 Composite(EmptyBuffer(image_width, image_height), channel, 1)
            /\ UNCHANGED buffer_display_a
    /\ UNCHANGED <<rendererVars, tracerVars, keep_rendering, frameVars, queue,
                   atomic_ray_count, worker, cons>>

NextTest ==
    \/ TestRenderFrame
    \/ RenderFrameEnd
    \/ WorkerStep
    \/ TestCollect

SpecTest == Init /\ [][NextTest]_vars

(***************************************************************************)
(* render_frame called again and again on one Renderer while no thread     *)
(* calls poll_results or stop_render.  The pool's threads are threads of   *)
(* the operating system: a task that can take a step takes it in the end,  *)
(* and so does the calling thread once threadpool.scoped can return.       *)
(***************************************************************************)
NextFrames ==
    \/ RenderFrameStart
    \/ RenderFrameEnd
    \/ WorkerStep

FairFrames ==
    /\ WF_vars(RenderFrameEnd)
    /\ \A t \in Threads :
          WF_vars(TaskStart(t) \/ TracePixel(t) \/ Send(t) \/ Finish(t))

SpecFrames == Init /\ [][NextFrames]_vars /\ FairFrames

(***************************************************************************)
(* The block partition and the dispatch list as functions of the image     *)
(* size: ImageBlocker::new + collect (lines 209-212), then the spiral loop *)
(* (lines 214-227), for every image of 0..MaxDim by 0..MaxDim.             *)
(***************************************************************************)
InitBlocks ==
    /\ \E w \in 0..MaxDim, h \in 0..MaxDim : RendererNew(w, h)
    /\ rf_pc = "new"
    /\ NoQuery

BlockerCollect ==
    /\ rf_pc = "new"
    /\ blocks' = Blocks(image_width, image_height)
    /\ rf_pc' = "collected"
    /\ UNCHANGED <<rendererVars, tracerVars, channel, keep_rendering, frames, frame_live,
                   spiral_blocks, queue, atomic_ray_count, worker, cons,
                   testVars>>

SpiralDispatch ==
    /\ rf_pc = "collected"
    /\ spiral_blocks' = SpiralBlocks(image_width, image_height)
    /\ rf_pc' = "dispatched"
    /\ UNCHANGED <<rendererVars, tracerVars, channel, keep_rendering, frames, frame_live, blocks,
                   queue, atomic_ray_count, worker, cons, testVars>>

\* Lines 238-296 for one block, run on its own to the end with the flag
\* set throughout: the PixelResults the task sends, in the order of the
\* local index (the generator's draws fixed at 0).
TaskResults(rb) ==
    [k \in 1..num_pixels(rb) |->
        [x |-> PixelX(rb, k - 1), y |-> PixelY(rb, k - 1),
         color |-> PixelColor(PixelX(rb, k - 1), PixelY(rb, k - 1), 0)]]

\* The tasks of the dispatch list run one after the other (a pool of one
\* thread): what the channel holds after the last of them.
RECURSIVE RunTasks(_, _, _)
RunTasks(list, j, acc) ==
    IF j > Len(list) THEN acc
    ELSE RunTasks(list, j + 1, acc \o TaskResults(list[j]))

BlockTasks ==
    /\ rf_pc = "dispatched"
    /\ channel' = RunTasks(spiral_blocks, 1, channel)
    /\ rf_pc' = "traced"
    /\ UNCHANGED <<rendererVars, tracerVars, keep_rendering, frames, frame_live, blocks,
                   spiral_blocks, queue, atomic_ray_count, worker, cons,
                   testVars>>

NextBlocks == BlockerCollect \/ SpiralDispatch \/ BlockTasks

SpecBlocks == InitBlocks /\ [][NextBlocks]_vars

(***************************************************************************)
(* Vectors, rays and spheres (shared.rs, object.rs).  Coordinates are      *)
(* integers; the rays of the model run along an axis with a direction of   *)
(* length one and the spheres have radius one and integer centres, so      *)
(* every discriminant is a perfect square and the roots are integers.      *)
(***************************************************************************)
Vec3(x, y, z) == [x |-> x, y |-> y, z |-> z]
VecAdd(a, b) == Vec3(a.x + b.x, a.y + b.y, a.z + b.z)
VecSub(a, b) == Vec3(a.x - b.x, a.y - b.y, a.z - b.z)
VecScale(t, a) == Vec3(t * a.x, t * a.y, t * a.z)
dot(a, b) == a.x * b.x + a.y * b.y + a.z * b.z
length_squared(a) == dot(a, a)

\* The square root of a perfect square.
sqrt(n) == CHOOSE r \in 0..n : r * r = n

\* Ray::new, Ray::at
RayNew(origin, direction) ==
    [origin |-> origin, direction |-> direction,
     direction_length_squared |-> length_squared(direction)]
RayAt(ray, t) == VecAdd(ray.origin, VecScale(t, ray.direction))

\* f32::INFINITY: above every finite value of the model, TRACE_INFINITY
\* (f32::MAX, the horizon 4 * MaxObjects + 12 of the scenes) included.
F32Infinity == 4 * MaxObjects + 13

\* 1.0 / radius in f32, for the radii of the model, 0 and 1: the division
\* by 0.0 does not fault, it gives the infinite value.
Reciprocal(radius) == IF radius = 0 THEN F32Infinity ELSE 1 \div radius

\* Sphere::new; radius_rcp is 1 / radius, which is 1 for the unit radius of
\* the spheres that are traced.
SphereNew(center, radius, material) ==
    [center |-> center, radius |-> radius, material |-> material,
     radius_rcp |-> Reciprocal(radius), radius_sq |-> radius * radius]

\* HitRecord::new
HitRecordNew(ray, t, outward_normal, material) ==
    LET front_face == dot(ray.direction, outward_normal) < 0
    IN  [point |-> RayAt(ray, t),
         normal |-> IF front_face THEN outward_normal
                    ELSE VecScale(-1, outward_normal),
         t |-> t, front_face |-> front_face, material |-> material]

\* <Sphere as RayHittable>::intersect: the HitRecord, or None.
SphereIntersect(sphere, q) ==
    LET r == q.ray
        oc == VecSub(r.origin, sphere.center)
        a == r.direction_length_squared
        half_b == dot(oc, r.direction)
        c == length_squared(oc) - sphere.radius_sq
        discriminant == half_b * half_b - a * c
    IN  IF discriminant < 0 THEN None
        ELSE LET sqrtd == sqrt(discriminant)
                 root_1 == (-half_b - sqrtd) \div a
                 root_2 == (-half_b + sqrtd) \div a
                 out_1 == root_1 < q.t_min \/ q.t_max < root_1
                 out_2 == root_2 < q.t_min \/ q.t_max < root_2
             IN  IF out_1 /\ out_2 THEN None
                 ELSE LET t == IF out_1 THEN root_2 ELSE root_1
                          point == RayAt(r, t)
                          outward_normal ==
                              VecScale(sphere.radius_rcp,
                                       VecSub(point, sphere.center))
                      IN  HitRecordNew(r, t, outward_normal, sphere.material)

\* Sphere::compute_bounds: the box centre -/+ (radius, radius, radius).
compute_bounds(sphere) ==
    LET half_size == Vec3(sphere.radius, sphere.radius, sphere.radius)
    IN  [min |-> VecSub(sphere.center, half_size),
         max |-> VecAdd(sphere.center, half_size)]

(***************************************************************************)
(* The bvh crate as scene.rs and bvhiter.rs use it: the boxes, the ray-box *)
(* test, and the node array of a tree.                                     *)
(***************************************************************************)
\* AABB::join: the smallest box around two boxes.
AABBJoin(p, q) ==
    [min |-> Vec3(Min(p.min.x, q.min.x), Min(p.min.y, q.min.y),
                  Min(p.min.z, q.min.z)),
     max |-> Vec3(Max(p.max.x, q.max.x), Max(p.max.y, q.max.y),
                  Max(p.max.z, q.max.z))]

\* One slab of the ray-box test: the interval of t in which the ray is
\* between lo and hi on one axis (o the origin's coordinate, d the
\* direction's), as [empty, bounded, near, far]; an axis the ray does not
\* move along bounds nothing and is empty when the origin is outside.
Slab(o, d, lo, hi) ==
    IF d = 0
    THEN [empty |-> (o < lo \/ o > hi), bounded |-> FALSE, near |-> 0, far |-> 0]
    ELSE [empty |-> FALSE, bounded |-> TRUE,
          near |-> IF d > 0 THEN (lo - o) \div d ELSE (hi - o) \div d,
          far |-> IF d > 0 THEN (hi - o) \div d ELSE (lo - o) \div d]

\* The parameter at which the ray enters the box and the one at which it
\* leaves it, over the axes the ray moves along.
RECURSIVE MaxOf(_)
MaxOf(S) == LET e == CHOOSE v \in S : TRUE
            IN  IF S = {e} THEN e ELSE Max(e, MaxOf(S \ {e}))
RECURSIVE MinOf(_)
MinOf(S) == LET e == CHOOSE v \in S : TRUE
            IN  IF S = {e} THEN e ELSE Min(e, MinOf(S \ {e}))

Slabs(ray, aabb) ==
    <<Slab(ray.origin.x, ray.direction.x, aabb.min.x, aabb.max.x),
      Slab(ray.origin.y, ray.direction.y, aabb.min.y, aabb.max.y),
      Slab(ray.origin.z, ray.direction.z, aabb.min.z, aabb.max.z)>>
SlabsEnter(slabs) ==
    MaxOf({slabs[k].near : k \in {j \in 1..3 : slabs[j].bounded}})
SlabsLeave(slabs) ==
    MinOf({slabs[k].far : k \in {j \in 1..3 : slabs[j].bounded}})
RayEnter(ray, aabb) == SlabsEnter(Slabs(ray, aabb))
RayLeave(ray, aabb) == SlabsLeave(Slabs(ray, aabb))

\* Ray::intersects_aabb: the slab test on the half-line t > 0.
intersects_aabb(ray, aabb) ==
    LET slabs == Slabs(ray, aabb)
    IN  /\ \A k \in 1..3 : ~slabs[k].empty
        /\ LET leave == SlabsLeave(slabs)
           IN  SlabsEnter(slabs) <= leave /\ leave > 0

\* BVHNode::Leaf and BVHNode::Node, with the fields the iterators read.
NoAABB == [min |-> Vec3(0, 0, 0), max |-> Vec3(0, 0, 0)]
Leaf(shape_index) ==
    [kind |-> "Leaf", shape_index |-> shape_index,
     child_l_index |-> 0, child_l_aabb |-> NoAABB,
     child_r_index |-> 0, child_r_aabb |-> NoAABB]
Node(child_l_index, child_l_aabb, child_r_index, child_r_aabb) ==
    [kind |-> "Node", shape_index |-> 0,
     child_l_index |-> child_l_index, child_l_aabb |-> child_l_aabb,
     child_r_index |-> child_r_index, child_r_aabb |-> child_r_aabb]

\* Binary trees over a set of shape indices, every index in one leaf: a
\* leaf is <<shape_index>>, an inner node is <<left, right>>.
RECURSIVE Trees(_)
Trees(S) ==
    IF Cardinality(S) = 1 THEN {<<CHOOSE i \in S : TRUE>>}
    ELSE UNION {{<<tl, tr>> : tl \in Trees(A), tr \in Trees(S \ A)} :
                   A \in (SUBSET S) \ {{}, S}}

IsLeaf(tree) == Len(tree) = 1

RECURSIVE TreeSize(_)
TreeSize(tree) ==
    IF IsLeaf(tree) THEN 1 ELSE 1 + TreeSize(tree[1]) + TreeSize(tree[2])

\* The box of a subtree: the join of the bounds of the shapes below it.
RECURSIVE TreeAABB(_, _)
TreeAABB(objs, tree) ==
    IF IsLeaf(tree) THEN compute_bounds(objs[tree[1] + 1])
    ELSE AABBJoin(TreeAABB(objs, tree[1]), TreeAABB(objs, tree[2]))

\* BVH.nodes for a tree: a node, then its left subtree, then its right
\* subtree, the root at index 0 (index i is element i + 1).
RECURSIVE TreeNodes(_, _, _)
TreeNodes(objs, tree, index) ==
    IF IsLeaf(tree) THEN <<Leaf(tree[1])>>
    ELSE LET child_l_index == index + 1
             child_r_index == index + 1 + TreeSize(tree[1])
         IN  <<Node(child_l_index, TreeAABB(objs, tree[1]),
                    child_r_index, TreeAABB(objs, tree[2]))>>
             \o TreeNodes(objs, tree[1], child_l_index)
             \o TreeNodes(objs, tree[2], child_r_index)

\* The BVHs over a list of objects: no node for no object.
BVHs(objs) ==
    IF objs = << >> THEN {[nodes |-> << >>]}
    ELSE {[nodes |-> TreeNodes(objs, tree, 0)] :
             tree \in Trees(0..(Len(objs) - 1))}

(***************************************************************************)
(* bvhiter.rs: BVHIterator.  The iterator borrows the BVH and holds the    *)
(* ray; the operators take both as arguments.  An index outside nodes or   *)
(* outside the stack array is a panic, kept as `panicked`.                 *)
(***************************************************************************)
StackCapacity == 32

NodeInRange(b, i) == i + 1 \in DOMAIN b.nodes
NodeAt(b, i) == b.nodes[i + 1]

Some(v) == [some |-> v]

\* BVHIterator::new.  Three fields are not in the source and are read by
\* no operation: stack_high is the largest stack_size so far, stack_ops
\* counts the calls of stack_push and stack_pop, stack_fault tells a panic
\* of the stack (an index outside the array, a size below zero) from one
\* of bvh.nodes.
BVHIteratorNew ==
    [stack |-> [i \in 0..(StackCapacity - 1) |-> 0], node_index |-> 0,
     stack_size |-> 0, has_node |-> TRUE, panicked |-> FALSE,
     stack_high |-> 0, stack_ops |-> 0, stack_fault |-> "none"]

\* A test that never finds the stack empty.
is_stack_empty_never(it) == FALSE
is_stack_empty(it) == it.stack_size = 0

\* A push that stores the node twice.
stack_push_twice(it, node) ==
    IF it.panicked THEN it
    ELSE IF it.stack_size + 1 >= StackCapacity
    THEN [it EXCEPT !.panicked = TRUE, !.stack_fault = "overflow"]
    ELSE [it EXCEPT !.stack[it.stack_size] = node,
                    !.stack[it.stack_size + 1] = node,
                    !.stack_size = it.stack_size + 2,
                    !.stack_high = MaxOf({it.stack_high, it.stack_size + 2}),
                    !.stack_ops = it.stack_ops + 2]
stack_push(it, node) ==
    IF it.panicked THEN it
    ELSE IF it.stack_size >= StackCapacity
    THEN [it EXCEPT !.panicked = TRUE, !.stack_fault = "overflow"]
    ELSE [it EXCEPT !.stack[it.stack_size] = node,
                    !.stack_size = it.stack_size + 1,
                    !.stack_high = MaxOf({it.stack_high, it.stack_size + 1}),
                    !.stack_ops = it.stack_ops + 1]

\* stack_pop, with the assignment of line 100: node_index takes the entry.
stack_pop(it) ==
    IF it.panicked THEN it
    ELSE IF it.stack_size = 0
    THEN [it EXCEPT !.panicked = TRUE, !.stack_fault = "underflow"]
    ELSE [it EXCEPT !.stack_size = it.stack_size - 1,
                    !.node_index = it.stack[it.stack_size - 1],
                    !.stack_ops = it.stack_ops + 1]

\* A move that tests the left child's box and descends into the right child.
move_left_crossed(b, ray, it) ==
    IF it.panicked THEN it
    ELSE IF ~NodeInRange(b, it.node_index) THEN [it EXCEPT !.panicked = TRUE]
    ELSE LET n == NodeAt(b, it.node_index)
         IN  IF n.kind = "Node"
             THEN IF intersects_aabb(ray, n.child_l_aabb)
                  THEN [it EXCEPT !.node_index = n.child_r_index,
                                  !.has_node = TRUE]
                  ELSE [it EXCEPT !.has_node = FALSE]
             ELSE [it EXCEPT !.has_node = FALSE]

move_left(b, ray, it) ==
    IF it.panicked THEN it
    ELSE IF ~NodeInRange(b, it.node_index) THEN [it EXCEPT !.panicked = TRUE]
    ELSE LET n == NodeAt(b, it.node_index)
         IN  IF n.kind = "Node"
             THEN IF intersects_aabb(ray, n.child_l_aabb)
                  THEN [it EXCEPT !.node_index = n.child_l_index,
                                  !.has_node = TRUE]
                  ELSE [it EXCEPT !.has_node = FALSE]
             ELSE [it EXCEPT !.has_node = FALSE]

\* A move that tests the right child's box and descends into the left child.
move_right_crossed(b, ray, it) ==
    IF it.panicked THEN it
    ELSE IF ~NodeInRange(b, it.node_index) THEN [it EXCEPT !.panicked = TRUE]
    ELSE LET n == NodeAt(b, it.node_index)
         IN  IF n.kind = "Node"
             THEN IF intersects_aabb(ray, n.child_r_aabb)
                  THEN [it EXCEPT !.node_index = n.child_l_index,
                                  !.has_node = TRUE]
                  ELSE [it EXCEPT !.has_node = FALSE]
             ELSE [it EXCEPT !.has_node = FALSE]

\* A move to the right child that does not test its box.
move_right_untested(b, ray, it) ==
    IF it.panicked THEN it
    ELSE IF ~NodeInRange(b, it.node_index) THEN [it EXCEPT !.panicked = TRUE]
    ELSE LET n == NodeAt(b, it.node_index)
         IN  IF n.kind = "Node"
             THEN [it EXCEPT !.node_index = n.child_r_index, !.has_node = TRUE]
             ELSE [it EXCEPT !.has_node = FALSE]

move_right(b, ray, it) ==
    IF it.panicked THEN it
    ELSE IF ~NodeInRange(b, it.node_index) THEN [it EXCEPT !.panicked = TRUE]
    ELSE LET n == NodeAt(b, it.node_index)
         IN  IF n.kind = "Node"
             THEN IF intersects_aabb(ray, n.child_r_aabb)
                  THEN [it EXCEPT !.node_index = n.child_r_index,
                                  !.has_node = TRUE]
                  ELSE [it EXCEPT !.has_node = FALSE]
             ELSE [it EXCEPT !.has_node = FALSE]

\* <BVHIterator as Iterator>::next: the iterator after the call and what
\* the call returned (Some(shape_index) or None; nothing after a panic).
RECURSIVE BVHIteratorNext(_, _, _)
BVHIteratorNext(b, ray, it) ==
    IF it.panicked THEN [it |-> it, ret |-> None]
    ELSE IF is_stack_empty(it) /\ ~it.has_node THEN [it |-> it, ret |-> None]
    ELSE IF it.has_node
    THEN BVHIteratorNext(b, ray, move_left(b, ray, stack_push(it, it.node_index)))
    ELSE LET popped == stack_pop(it)
         IN  IF popped.panicked THEN [it |-> popped, ret |-> None]
             ELSE IF ~NodeInRange(b, popped.node_index)
             THEN [it |-> [popped EXCEPT !.panicked = TRUE], ret |-> None]
             ELSE LET n == NodeAt(b, popped.node_index)
                  IN  IF n.kind = "Node"
                      THEN BVHIteratorNext(b, ray, move_right(b, ray, popped))
                      ELSE [it |-> [popped EXCEPT !.has_node = FALSE],
                            ret |-> Some(n.shape_index)]

(***************************************************************************)
(* scene.rs: BVHIterator, the copy that Scene::intersect uses.             *)
(***************************************************************************)
SceneBVHIteratorNew ==
    [stack |-> [i \in 0..(StackCapacity - 1) |-> 0], current_node |-> 0,
     current_stack |-> 0, has_node |-> TRUE, panicked |-> FALSE,
     stack_high |-> 0, stack_ops |-> 0, stack_fault |-> "none"]

stack_empty(it) == it.current_stack = 0

scene_stack_push(it, node) ==
    IF it.panicked THEN it
    ELSE IF it.current_stack >= StackCapacity
    THEN [it EXCEPT !.panicked = TRUE, !.stack_fault = "overflow"]
    ELSE [it EXCEPT !.stack[it.current_stack] = node,
                    !.current_stack = it.current_stack + 1,
                    !.stack_high = MaxOf({it.stack_high, it.current_stack + 1}),
                    !.stack_ops = it.stack_ops + 1]

scene_stack_pop(it) ==
    IF it.panicked THEN it
    ELSE IF it.current_stack = 0
    THEN [it EXCEPT !.panicked = TRUE, !.stack_fault = "underflow"]
    ELSE [it EXCEPT !.current_stack = it.current_stack - 1,
                    !.current_node = it.stack[it.current_stack - 1],
                    !.stack_ops = it.stack_ops + 1]

scene_move_left(b, ray, it) ==
    IF it.panicked THEN it
    ELSE IF ~NodeInRange(b, it.current_node) THEN [it EXCEPT !.panicked = TRUE]
    ELSE LET n == NodeAt(b, it.current_node)
         IN  IF n.kind = "Node"
             THEN IF intersects_aabb(ray, n.child_l_aabb)
                  THEN [it EXCEPT !.current_node = n.child_l_index]
                  ELSE [it EXCEPT !.has_node = FALSE]
             ELSE [it EXCEPT !.has_node = FALSE]

\* A move to the right child that never descends.
scene_move_right_skipped(b, ray, it) ==
    IF it.panicked THEN it ELSE [it EXCEPT !.has_node = FALSE]

scene_move_right(b, ray, it) ==
    IF it.panicked THEN it
    ELSE IF ~NodeInRange(b, it.current_node) THEN [it EXCEPT !.panicked = TRUE]
    ELSE LET n == NodeAt(b, it.current_node)
         IN  IF n.kind = "Node"
             THEN IF intersects_aabb(ray, n.child_r_aabb)
                  THEN [it EXCEPT !.current_node = n.child_r_index]
                  ELSE [it EXCEPT !.has_node = FALSE]
             ELSE [it EXCEPT !.has_node = FALSE]

RECURSIVE SceneBVHIteratorNext(_, _, _)
SceneBVHIteratorNext(b, ray, it) ==
    IF it.panicked THEN [it |-> it, ret |-> None]
    ELSE IF stack_empty(it) /\ ~it.has_node THEN [it |-> it, ret |-> None]
    ELSE IF it.has_node
    THEN SceneBVHIteratorNext(b, ray,
             scene_move_left(b, ray, scene_stack_push(it, it.current_node)))
    ELSE LET popped == scene_stack_pop(it)
         IN  IF popped.panicked THEN [it |-> popped, ret |-> None]
             ELSE IF ~NodeInRange(b, popped.current_node)
             THEN [it |-> [popped EXCEPT !.panicked = TRUE], ret |-> None]
             ELSE LET n == NodeAt(b, popped.current_node)
                  IN  IF n.kind = "Node"
                      THEN SceneBVHIteratorNext(b, ray,
                               scene_move_right(b, ray,
                                   [popped EXCEPT !.has_node = TRUE]))
                      ELSE [it |-> [popped EXCEPT !.has_node = FALSE],
                            ret |-> Some(n.shape_index)]

(***************************************************************************)
(* scene.rs: Scene                                                         *)
(***************************************************************************)
\* A ray that a hit leaves as long as it was.
ShortenRayNever(q, hit_option) == q
\* Lines 145-148: a hit shortens the ray.
ShortenRay(q, hit_option) ==
    IF hit_option # None
    THEN [q EXCEPT !.t_max = Min(q.t_max, hit_option.t)]
    ELSE q

\* A comparison that lets a hit at the same t replace the closest one.
CloserHitOrEqual(closest_hit_option, hit_option) ==
    IF closest_hit_option = None THEN hit_option
    ELSE IF hit_option # None /\ hit_option.t <= closest_hit_option.t
         THEN hit_option
         ELSE closest_hit_option
\* Lines 149-157: the closest hit after a candidate.
CloserHit(closest_hit_option, hit_option) ==
    IF closest_hit_option = None THEN hit_option
    ELSE IF hit_option # None /\ hit_option.t < closest_hit_option.t
         THEN hit_option
         ELSE closest_hit_option

\* The loop of Scene::intersect (lines 141-158) from the iterator's state
\* `it` on: the closest hit, or a panic.  `steps` is not in the source: it
\* lists, per candidate of the loop, the candidate, query.t_max before and
\* after it, its hit and the closest hit after it.
RECURSIVE SceneIntersectLoop(_, _, _, _, _, _, _)
SceneIntersectLoop(objs, b, bvh_ray, it, q, closest_hit_option, steps) ==
    LET step == SceneBVHIteratorNext(b, bvh_ray, it)
    IN  IF step.it.panicked
        THEN [panicked |-> TRUE, hit |-> None, steps |-> steps]
        ELSE IF step.ret = None
        THEN [panicked |-> FALSE, hit |-> closest_hit_option, steps |-> steps]
        ELSE LET shape_idx == step.ret.some
             IN  IF shape_idx + 1 \notin DOMAIN objs
                 THEN [panicked |-> TRUE, hit |-> None, steps |-> steps]
                 ELSE LET hit_option == SphereIntersect(objs[shape_idx + 1], q)
                          shortened == ShortenRay(q, hit_option)
                          closest == CloserHit(closest_hit_option, hit_option)
                      IN  SceneIntersectLoop(
                              objs, b, bvh_ray, step.it, shortened, closest,
                              Append(steps,
                                     [shape_idx |-> shape_idx,
                                      t_max |-> q.t_max,
                                      hit |-> hit_option,
                                      t_max_after |-> shortened.t_max,
                                      closest |-> closest]))

\* Scene::intersect(query)
SceneIntersect(objs, b, q) ==
    IF b = None THEN [panicked |-> FALSE, hit |-> None, steps |-> << >>]
    ELSE SceneIntersectLoop(objs, b, RayNew(q.ray.origin, q.ray.direction),
                            SceneBVHIteratorNew, q, None, << >>)

(***************************************************************************)
(* Scenes and queries: a Scene is made empty, populated, built once, and   *)
(* then only read.  One ray is traversed with an iterator of bvhiter.rs,   *)
(* then with an iterator of scene.rs, then looked up with                  *)
(* Scene::intersect: the three read the same unchanging scene, so the      *)
(* order among them is fixed.                                              *)
(***************************************************************************)
\* Calls of next() past the first None that the model follows.
MaxCallsPastNone == 2

\* The k-th sphere that may be added, of radius one: the first two touch
\* each other on the x axis (at (3, 0, 0), where a ray along the axis meets
\* both at the same t), the third lies off the axis, the rest further out.
SphereCentre(k) ==
    CASE k = 1 -> Vec3(2, 0, 0)
      [] k = 2 -> Vec3(4, 0, 0)
      [] k = 3 -> Vec3(4, 4, 0)
      [] OTHER -> Vec3(4 * k - 2, 0, 0)
CandidateSphere(k) == SphereNew(SphereCentre(k), 1, k)

\* The horizon of the model's scenes: beyond every sphere from every origin.
FarT == 4 * MaxObjects + 12

RayOrigins == {Vec3(0, 0, 0), Vec3(2, 0, 0), Vec3(8, 0, 0), Vec3(8, 4, 0)}
RayDirections == {Vec3(1, 0, 0), Vec3(-1, 0, 0), Vec3(0, 1, 0)}
Intervals == {<<0, FarT>>, <<0, 3>>, <<2, FarT>>}
Queries ==
    {[ray |-> RayNew(o, d), t_min |-> i[1], t_max |-> i[2]] :
        o \in RayOrigins, d \in RayDirections, i \in Intervals}

\* The queries before Scene::intersect is called: the ray alone matters
\* to a traversal, the interval is that of the whole ray.
WholeRayQueries == {q \in Queries : q.t_min = 0 /\ q.t_max = FarT}

\* Scene::new, and the ray of the queries to be made.
InitScene ==
    /\ RendererNew(1, 1)
    /\ rf_pc = "idle"
    /\ objects = << >>
    /\ bvh = None
    /\ query \in WholeRayQueries
    /\ bvh_iterator = None
    /\ yielded = << >>
    /\ scene_iterator = None
    /\ scene_yielded = << >>
    /\ hit_result = None
    /\ scalar_call = None
    /\ packet_call = None
    /\ pixel_sample = None
    /\ sphere_test = None

rendererState == <<rendererVars, channel, keep_rendering, frameVars, queue,
                   atomic_ray_count, worker, cons, testVars>>

NothingQueried ==
    /\ bvh_iterator = None /\ scene_iterator = None
    /\ hit_result = None /\ scalar_call = None

\* scene.objects.push(..), while the scene is populated: the spheres are
\* added in the order of their numbers.
SceneAddObject ==
    /\ bvh = None
    /\ NothingQueried
    /\ Len(objects) < MaxObjects
    /\ \E k \in 1..MaxObjects :
          /\ \A i \in DOMAIN objects : objects[i].material < k
          /\ objects' = Append(objects, CandidateSphere(k))
    /\ UNCHANGED <<rendererState, integratorVars, bvh, query, traversalVars, hit_result>>

\* Scene::build_bvh: BVH::build gives a tree over the objects, each in one
\* leaf, the boxes of a node's children around the shapes below them.
build_bvh ==
    /\ bvh = None
    /\ NothingQueried
    /\ bvh' \in BVHs(objects)
    /\ UNCHANGED <<rendererState, integratorVars, objects, query, traversalVars, hit_result>>

\* The ray of a traversal, as Scene::intersect makes it (lines 134-137).
BvhRay == RayNew(query.ray.origin, query.ray.direction)

NoneCount(rets) == Cardinality({i \in DOMAIN rets : rets[i] = None})

\* The traversal with iterator `it` is over: it panicked, or every call of
\* next() that the model follows has been made.
IterFinished(it, rets) ==
    /\ it # None
    /\ (it.panicked \/ NoneCount(rets) >= MaxCallsPastNone)

\* bvhiter.rs: BVHIterator::new(bvh, ray)
IterNew ==
    /\ bvh # None
    /\ bvh_iterator = None
    /\ bvh_iterator' = BVHIteratorNew
    /\ UNCHANGED <<rendererState, integratorVars, sceneVars, yielded, scene_iterator,
                   scene_yielded, hit_result>>

\* bvhiter.rs: one call of next()
IterNext ==
    /\ bvh_iterator # None
    /\ ~bvh_iterator.panicked
    /\ NoneCount(yielded) < MaxCallsPastNone
    /\ LET step == BVHIteratorNext(bvh, BvhRay, bvh_iterator)
       IN  /\ bvh_iterator' = step.it
           /\ yielded' = IF step.it.panicked THEN yielded
                         ELSE Append(yielded, step.ret)
    /\ UNCHANGED <<rendererState, integratorVars, sceneVars, scene_iterator, scene_yielded,
                   hit_result>>

\* scene.rs: BVHIterator::new(bvh, ray)
SceneIterNew ==
    /\ bvh # None
    /\ IterFinished(bvh_iterator, yielded)
    /\ scene_iterator = None
    /\ scene_iterator' = SceneBVHIteratorNew
    /\ UNCHANGED <<rendererState, integratorVars, sceneVars, bvh_iterator, yielded,
                   scene_yielded, hit_result>>

\* scene.rs: one call of next()
SceneIterNext ==
    /\ scene_iterator # None
    /\ ~scene_iterator.panicked
    /\ NoneCount(scene_yielded) < MaxCallsPastNone
    /\ LET step == SceneBVHIteratorNext(bvh, BvhRay, scene_iterator)
       IN  /\ scene_iterator' = step.it
           /\ scene_yielded' = IF step.it.panicked THEN scene_yielded
                               ELSE Append(scene_yielded, step.ret)
    /\ UNCHANGED <<rendererState, integratorVars, sceneVars, bvh_iterator, yielded,
                   hit_result>>

\* The traversals of the scene are over, or cannot be made.
Traversed == bvh = None \/ IterFinished(scene_iterator, scene_yielded)

\* scene.intersect(query), for the ray of the traversals and an interval.
SceneIntersectCall ==
    /\ Traversed
    /\ hit_result = None
    /\ \E q \in Queries :
          /\ q.ray = query.ray
          /\ query' = q
          /\ hit_result' = SceneIntersect(objects, bvh, q)
    /\ UNCHANGED <<rendererState, integratorVars, objects, bvh, traversalVars>>

\* The traversals and the closest-hit query on a scene.
NextScene ==
    \/ SceneAddObject
    \/ build_bvh
    \/ IterNew
    \/ IterNext
    \/ SceneIterNew
    \/ SceneIterNext
    \/ SceneIntersectCall

SpecScene == InitScene /\ [][NextScene]_vars

(***************************************************************************)
(* The renderer on a scene: main.rs makes the scene, builds its BVH and    *)
(* moves it into Renderer::new; render_frame, its tasks, poll_results and  *)
(* stop_render reach it through &self only.                                *)
(***************************************************************************)
\* main.rs: one_weekend_scene() followed by scene.build_bvh(), with two of
\* the model's spheres.
one_weekend_scene ==
    LET objs == <<CandidateSphere(1), CandidateSphere(2)>>
    IN  [objects |-> objs, bvh |-> CHOOSE b \in BVHs(objs) : TRUE]

\* Renderer::new(image_width, image_height, samples_per_pixel, scene, camera)
InitRender ==
    /\ \E w \in 1..MaxWidth, h \in 1..MaxHeight : RendererNew(w, h)
    /\ rf_pc = "idle"
    /\ objects = one_weekend_scene.objects
    /\ bvh = one_weekend_scene.bvh
    /\ query = None
    /\ bvh_iterator = None
    /\ yielded = << >>
    /\ scene_iterator = None
    /\ scene_yielded = << >>
    /\ hit_result = None
    /\ scalar_call = None
    /\ packet_call = None
    /\ pixel_sample = None
    /\ sphere_test = None

SpecRender == InitRender /\ [][Next]_vars

(***************************************************************************)
(* render.rs: the integrator, ray_color and render_packet.  Colours are    *)
(* vectors of integers, in units of 1/20 for the background; a material's  *)
(* scatter, which is a capability outside the renderer and draws from a    *)
(* random source, is modelled by its outcome: absorbed, or scattered into  *)
(* one of the model's directions with the material's albedo, the choice a  *)
(* function of a seed drawn for the call.                                  *)
(***************************************************************************)
\* TRACE_EPSILON in the model's integer parameters: the least t above 0.
TRACE_EPSILON == 1
\* TRACE_INFINITY: beyond every intersection of the model's scenes.
TRACE_INFINITY == FarT

\* Depth budgets of the calls: -1..MaxDepth.
MaxDepth == 2
\* Seeds of the random source of a call: 0..MaxSeed.
MaxSeed == 1

ColorZERO == Vec3(0, 0, 0)
ColorONE == Vec3(1, 1, 1)
\* A product that takes the first component of the attenuation for all.
ColorMulFirst(a, b) == Vec3(a.x * b.x, a.x * b.y, a.x * b.z)
\* Color * Color, component by component (lines 107 and 162).
ColorMul(a, b) == Vec3(a.x * b.x, a.y * b.y, a.z * b.z)

\* Lines 115-117: (1 - t) * (1, 1, 1) + t * (0.5, 0.7, 1.0) with
\* t = 0.5 * (direction.y + 1), for a direction of length one.
Background(ray) ==
    LET dy == ray.direction.y
    IN  Vec3(((1 - dy) * 20 + (1 + dy) * 10) \div 2,
             ((1 - dy) * 20 + (1 + dy) * 14) \div 2,
             ((1 - dy) * 20 + (1 + dy) * 20) \div 2)

\* hit.material.scatter(&ray, &hit): None, or the attenuation and the
\* scattered ray, which starts at the hit point.
Albedo(material) == Vec3(material + 1, 1, 2)
Scatter(seed, ray, hit) ==
    LET choice == (seed + hit.point.x + hit.point.y + hit.t) % 4
    IN  IF choice = 0 THEN None
        ELSE [attenuation |-> Albedo(hit.material),
              scattered_ray |->
                  RayNew(hit.point,
                         CASE choice = 1 -> Vec3(1, 0, 0)
                           [] choice = 2 -> Vec3(-1, 0, 0)
                           [] OTHER -> Vec3(0, 1, 0))]

\* A budget that is spent only below zero.
DepthSpentBelowZero(depth) == depth < 0
\* Lines 88 and 128: if depth <= 0
DepthSpent(depth) == depth <= 0

\* A budget that goes down by two.
NextDepthSkipping(depth) == depth - 2
\* Lines 108 and 160: depth - 1, the budget of the recursive call.
NextDepth(depth) == depth - 1

\* ray_color(ray, scene, depth, ray_count): the colour, the ray count
\* after the call, the number of scene queries the call made, and the
\* depth arguments of the call and of the calls it made, outermost first
\* (the last two are not values of the source).
RECURSIVE ray_color(_, _, _, _, _, _, _)
ray_color(ray, objs, b, depth, ray_count, queries, seed) ==
    IF DepthSpent(depth)
    THEN [color |-> ColorZERO, ray_count |-> ray_count, queries |-> queries,
          panicked |-> FALSE, depths |-> <<depth>>]
    ELSE LET q == [ray |-> ray, t_min |-> TRACE_EPSILON, t_max |-> TRACE_INFINITY]
             res == SceneIntersect(objs, b, q)
         IN  IF res.panicked
             THEN [color |-> ColorZERO, ray_count |-> ray_count,
                   queries |-> queries + 1, panicked |-> TRUE,
                   depths |-> <<depth>>]
             ELSE IF res.hit # None
             THEN LET scatter == Scatter(seed, ray, res.hit)
                  IN  IF scatter # None
                      THEN LET rec == ray_color(scatter.scattered_ray, objs, b,
                                                NextDepth(depth), ray_count + 1,
                                                queries + 1, seed)
                           IN  [rec EXCEPT
                                  !.color =
                                      ColorMul(scatter.attenuation, rec.color),
                                  !.depths = <<depth>> \o rec.depths]
                      ELSE [color |-> ColorZERO, ray_count |-> ray_count + 1,
                            queries |-> queries + 1, panicked |-> FALSE,
                            depths |-> <<depth>>]
             ELSE [color |-> Background(ray), ray_count |-> ray_count + 1,
                   queries |-> queries + 1, panicked |-> FALSE,
                   depths |-> <<depth>>]

Lanes == 0..(TRACE_PACKET_SIZE - 1)

\* RayPacket::new
RayPacketNew(rays) ==
    [rays |-> rays, is_ray_live |-> [i \in Lanes |-> TRUE],
     ray_live_count |-> TRACE_PACKET_SIZE,
     ray_t_min |-> [i \in Lanes |-> TRACE_EPSILON],
     ray_t_max |-> [i \in Lanes |-> TRACE_INFINITY]]

\* RayPacket::update_ray, RayPacket::end_ray
update_ray(packet, i, ray) == [packet EXCEPT !.rays[i] = ray]
\* A lane that is counted out and stays live.
end_ray_counted(packet, i) ==
    [packet EXCEPT !.ray_live_count = packet.ray_live_count - 1]
\* A lane that is ended and is still counted.
end_ray_uncounted(packet, i) ==
    [packet EXCEPT !.is_ray_live[i] = FALSE]
end_ray(packet, i) ==
    [packet EXCEPT !.is_ray_live[i] = FALSE,
                   !.ray_live_count = packet.ray_live_count - 1]

\* Not in the source: the record of a call of update_ray or end_ray on
\* lane i, with the lanes whose is_ray_live is true and ray_live_count
\* before and after it.
LiveLanes(packet) == {j \in Lanes : packet.is_ray_live[j]}
PacketOp(name, i, before, after) ==
    [op |-> name, lane |-> i,
     live_before |-> LiveLanes(before),
     count_before |-> before.ray_live_count,
     live_after |-> LiveLanes(after),
     count_after |-> after.ray_live_count]

\* scene.intersect_packet(packet): per lane the closest hit of the lane's
\* ray, None for a lane that is not live.
intersect_packet(objs, b, packet) ==
    [i \in Lanes |->
        IF packet.is_ray_live[i]
        THEN SceneIntersect(objs, b, [ray |-> packet.rays[i],
                                      t_min |-> TRACE_EPSILON,
                                      t_max |-> TRACE_INFINITY])
        ELSE [panicked |-> FALSE, hit |-> None, steps |-> << >>]]

\* Lines 136-157: the loop over the lanes, from lane i on.
RECURSIVE PacketLanes(_, _, _, _)
PacketLanes(st, intersect_results, seed, i) ==
    IF i >= TRACE_PACKET_SIZE THEN st
    ELSE IF ~st.packet.is_ray_live[i]
    THEN PacketLanes(st, intersect_results, seed, i + 1)
    ELSE LET ray == st.packet.rays[i]
             hit_option == intersect_results[i].hit
         IN  IF hit_option # None
             THEN LET scatter == Scatter(seed, ray, hit_option)
                  IN  IF scatter # None
                      THEN LET updated == update_ray(st.packet, i,
                                                     scatter.scattered_ray)
                           IN  PacketLanes(
                                   [st EXCEPT
                                      !.attenuations[i] = scatter.attenuation,
                                      !.packet = updated,
                                      !.ops = Append(st.ops,
                                                  PacketOp("update_ray", i,
                                                      st.packet, updated))],
                                   intersect_results, seed, i + 1)
                      ELSE LET ended == end_ray(st.packet, i)
                           IN  PacketLanes(
                                   [st EXCEPT
                                      !.packet = ended,
                                      !.ops = Append(st.ops,
                                                  PacketOp("end_ray", i,
                                                      st.packet, ended))],
                                   intersect_results, seed, i + 1)
             ELSE LET ended == end_ray(st.packet, i)
                  IN  PacketLanes(
                          [st EXCEPT
                             !.color_results[i] = Background(ray),
                             !.packet = ended,
                             !.ops = Append(st.ops,
                                         PacketOp("end_ray", i,
                                             st.packet, ended))],
                          intersect_results, seed, i + 1)

\* render_packet(packet, scene, depth, ray_count): the colours per lane,
\* the packet and the ray count after the call, the number of scene
\* queries the call made, and (not in the source) the depths of the nested
\* calls and the calls of update_ray and end_ray they made, in order.
RECURSIVE render_packet(_, _, _, _, _, _, _)
render_packet(packet, objs, b, depth, ray_count, queries, seed) ==
    IF DepthSpent(depth)
    THEN [colors |-> [i \in Lanes |-> ColorZERO], packet |-> packet,
          ray_count |-> ray_count, queries |-> queries, panicked |-> FALSE,
          depths |-> <<depth>>, ops |-> << >>]
    ELSE LET counted == ray_count + packet.ray_live_count
             intersect_results == intersect_packet(objs, b, packet)
         IN  IF \E i \in Lanes : intersect_results[i].panicked
             THEN [colors |-> [i \in Lanes |-> ColorZERO], packet |-> packet,
                   ray_count |-> counted, queries |-> queries + 1,
                   panicked |-> TRUE, depths |-> <<depth>>, ops |-> << >>]
             ELSE LET st == PacketLanes(
                                [packet |-> packet,
                                 color_results |-> [i \in Lanes |-> ColorZERO],
                                 attenuations |-> [i \in Lanes |-> ColorONE],
                                 ops |-> << >>],
                                intersect_results, seed, 0)
                  IN  IF st.packet.ray_live_count > 0
                      THEN LET rec == render_packet(st.packet, objs, b,
                                                    NextDepth(depth), counted,
                                                    queries + 1, seed)
                           IN  [rec EXCEPT
                                  !.colors =
                                      [i \in Lanes |->
                                          VecAdd(st.color_results[i],
                                                 ColorMul(rec.colors[i],
                                                          st.attenuations[i]))],
                                  !.depths = <<depth>> \o rec.depths,
                                  !.ops = st.ops \o rec.ops]
                      ELSE [colors |-> st.color_results, packet |-> st.packet,
                            ray_count |-> counted, queries |-> queries + 1,
                            panicked |-> FALSE, depths |-> <<depth>>,
                            ops |-> st.ops]

\* The rays of the packet of a call: the ray of the query, the ray back
\* from its origin, and two rays across the scene.
PacketRays ==
    [i \in Lanes |->
        CASE i = 0 -> query.ray
          [] i = 1 -> RayNew(query.ray.origin, VecScale(-1, query.ray.direction))
          [] i = 2 -> RayNew(Vec3(0, 0, 0), Vec3(1, 0, 0))
          [] OTHER -> RayNew(Vec3(8, 4, 0), Vec3(-1, 0, 0))]

\* ray_color(query.ray, scene, depth, &mut ray_count) with ray_count 0.
RayColorCall ==
    /\ scalar_call = None
    /\ \E depth \in (-1)..MaxDepth, seed \in 0..MaxSeed :
          scalar_call' = [depth |-> depth, seed |-> seed,
                     ret |-> ray_color(query.ray, objects, bvh, depth, 0, 0,
                                       seed)]
    /\ UNCHANGED <<rendererState, sceneVars, traversalVars, hit_result,
                   packet_call, pixel_sample, sphere_test>>

\* render_packet(&mut RayPacket::new(rays), scene, depth, &mut ray_count)
\* with ray_count 0, for the depth and the seed of the scalar call.
RenderPacketCall ==
    /\ scalar_call # None
    /\ packet_call = None
    /\ packet_call' =
          [depth |-> scalar_call.depth, seed |-> scalar_call.seed,
           ret |-> render_packet(RayPacketNew(PacketRays), objects, bvh,
                                 scalar_call.depth, 0, 0, scalar_call.seed)]
    /\ UNCHANGED <<rendererState, sceneVars, traversalVars, hit_result,
                   scalar_call, pixel_sample, sphere_test>>

\* The integrator on a scene: the scene is populated and built (or left
\* unbuilt), then ray_color and render_packet are called on it.
NextTrace ==
    \/ SceneAddObject
    \/ build_bvh
    \/ RayColorCall
    \/ RenderPacketCall

SpecTrace == InitScene /\ [][NextTrace]_vars

(***************************************************************************)
(* render.rs, lines 248-287: the supersampling of one pixel by a block     *)
(* task.  The radiance of a primary ray is a number drawn for the ray; the *)
(* division of the accumulated colour by samples_per_pixel is kept as the  *)
(* pair of the sum and the divisor.                                        *)
(***************************************************************************)
\* shared.rs:16
TRACE_PACKET == TRUE

\* samples_per_pixel of a Renderer: 1..MaxSamplesPerPixel.
MaxSamplesPerPixel == 9
\* The radiance a primary ray returns: 0..MaxRadiance.
MaxRadiance == 2

\* Passes of the loop over the samples: line 258, or line 278.
SampleLoopCount(samples_per_pixel) ==
    IF TRACE_PACKET THEN samples_per_pixel \div TRACE_PACKET_SIZE
    ELSE samples_per_pixel

\* Primary rays of one pass: the rays of a packet, or one ray.
RaysPerPass == IF TRACE_PACKET THEN TRACE_PACKET_SIZE ELSE 1

RECURSIVE SumOf(_, _)
SumOf(f, S) ==
    IF S = {} THEN 0
    ELSE LET i == CHOOSE j \in S : TRUE IN f[i] + SumOf(f, S \ {i})

\* Renderer::new(.., samples_per_pixel, ..), and a task at line 249:
\* color_accum = Color::ZERO before the first pass.
InitPixel ==
    /\ RendererNew(1, 1)
    /\ rf_pc = "idle"
    /\ objects = << >>
    /\ bvh = None
    /\ query = None
    /\ bvh_iterator = None
    /\ yielded = << >>
    /\ scene_iterator = None
    /\ scene_yielded = << >>
    /\ hit_result = None
    /\ scalar_call = None
    /\ packet_call = None
    /\ sphere_test = None
    /\ \E spp \in 1..MaxSamplesPerPixel :
          pixel_sample = [samples_per_pixel |-> spp, pc |-> "sampling",
                          passes |-> 0, color_accum |-> 0,
                          primary_rays |-> 0, color |-> None]

\* One pass of the loop at line 257 (a packet of primary rays through
\* render_packet, lines 258-276) or at line 278 (one ray through ray_color).
SamplePass ==
    /\ pixel_sample.pc = "sampling"
    /\ pixel_sample.passes < SampleLoopCount(pixel_sample.samples_per_pixel)
    /\ \E color_results \in [0..(RaysPerPass - 1) -> 0..MaxRadiance] :
          pixel_sample' =
              [pixel_sample EXCEPT
                 !.passes = pixel_sample.passes + 1,
                 !.primary_rays = pixel_sample.primary_rays + RaysPerPass,
                 !.color_accum = pixel_sample.color_accum
                                 + SumOf(color_results, DOMAIN color_results)]
    /\ UNCHANGED <<rendererState, sceneVars, traversalVars, hit_result,
                   scalar_call, packet_call, sphere_test>>

\* Line 287: color_accum /= self.samples_per_pixel, after the last pass.
SampleDivide ==
    /\ pixel_sample.pc = "sampling"
    /\ pixel_sample.passes >= SampleLoopCount(pixel_sample.samples_per_pixel)
    /\ pixel_sample' =
          [pixel_sample EXCEPT
             !.pc = "done",
             !.color = [sum |-> pixel_sample.color_accum,
                        over |-> pixel_sample.samples_per_pixel]]
    /\ UNCHANGED <<rendererState, sceneVars, traversalVars, hit_result,
                   scalar_call, packet_call, sphere_test>>

NextPixel == SamplePass \/ SampleDivide

SpecPixel == InitPixel /\ [][NextPixel]_vars

(***************************************************************************)
(* object.rs: SphereSimd, four spheres side by side, and its test of a     *)
(* packet: lane i of the result is for ray i of the packet against sphere  *)
(* i of the group.  A lane is computed as the vector code computes it, a   *)
(* mask being a boolean and select the choice by it.                       *)
(***************************************************************************)
\* TracePacketType::MAX (object.rs:143): f32::MAX in every lane, the value
\* of TRACE_INFINITY.
miss == TRACE_INFINITY

\* simd_from_fn: lane i holds the field of the i-th sphere, 0.0 past the
\* end of the vector.
simd_from_fn(spheres, field, i) ==
    IF i < Len(spheres) THEN spheres[i + 1][field] ELSE 0

\* SphereSimd::from_vec
SphereSimdFromVec(spheres) ==
    [center_x |-> [i \in Lanes |->
                      IF i < Len(spheres) THEN spheres[i + 1].center.x ELSE 0],
     center_y |-> [i \in Lanes |->
                      IF i < Len(spheres) THEN spheres[i + 1].center.y ELSE 0],
     center_z |-> [i \in Lanes |->
                      IF i < Len(spheres) THEN spheres[i + 1].center.z ELSE 0],
     radius |-> [i \in Lanes |-> simd_from_fn(spheres, "radius", i)],
     radius_rcp |-> [i \in Lanes |-> simd_from_fn(spheres, "radius_rcp", i)],
     radius_sq |-> [i \in Lanes |-> simd_from_fn(spheres, "radius_sq", i)]]

\* Lines 131 and 139-141: lane i of hit_mask.  All comparisons are strict.
hit_mask(root_a, root_b, t_min, t_max, discriminant) ==
    LET discriminant_mask == discriminant > 0
        root_mask_a == root_a > t_min /\ root_a < t_max
        root_mask_b == root_b > t_min /\ root_b < t_max
    IN  (root_mask_a \/ root_mask_b) /\ discriminant_mask

\* SphereSimd::intersect_packet, lane i.  The square root of a negative
\* discriminant is NaN, and so are the roots; every comparison with NaN
\* is false, which leaves the lane at miss.
SphereSimdIntersectLane(simd, packet, i) ==
    LET ray == packet.rays[i]
        oc_x == ray.origin.x - simd.center_x[i]
        oc_y == ray.origin.y - simd.center_y[i]
        oc_z == ray.origin.z - simd.center_z[i]
        a == ray.direction_length_squared
        half_b == oc_x * ray.direction.x + oc_y * ray.direction.y
                  + oc_z * ray.direction.z
        oc_length_squared == oc_x * oc_x + oc_y * oc_y + oc_z * oc_z
        c == oc_length_squared - simd.radius_sq[i]
        discriminant == half_b * half_b - a * c
    IN  IF discriminant < 0 THEN miss
        ELSE LET sqrtd == sqrt(discriminant)
                 root_a == (-half_b - sqrtd) \div a
                 root_b == (-half_b + sqrtd) \div a
                 root == Min(root_a, root_b)
             IN  IF hit_mask(root_a, root_b, packet.ray_t_min[i],
                             packet.ray_t_max[i], discriminant)
                 THEN root ELSE miss

\* SphereSimd::intersect_packet
SphereSimdIntersectPacket(simd, packet) ==
    [i \in Lanes |-> SphereSimdIntersectLane(simd, packet, i)]

\* Where the rays of the tested packets start: the origins of the queries,
\* a point on the first sphere and the point where the first two touch.
SphereTestOrigins == RayOrigins \cup {Vec3(1, 0, 0), Vec3(3, 0, 0)}

\* The query Sphere::intersect gets for ray i of a packet.
LaneQuery(packet, i) ==
    [ray |-> packet.rays[i], t_min |-> packet.ray_t_min[i],
     t_max |-> packet.ray_t_max[i]]

\* A group of the scene's first spheres, and RayPacket::new on four rays
\* from one origin, forth and back along an axis.
InitSphere ==
    /\ RendererNew(1, 1)
    /\ rf_pc = "idle"
    /\ objects = << >>
    /\ bvh = None
    /\ query = None
    /\ bvh_iterator = None
    /\ yielded = << >>
    /\ scene_iterator = None
    /\ scene_yielded = << >>
    /\ hit_result = None
    /\ scalar_call = None
    /\ packet_call = None
    /\ pixel_sample = None
    /\ \E n \in 1..Min(MaxObjects, TRACE_PACKET_SIZE),
          o \in SphereTestOrigins, d \in RayDirections :
          sphere_test =
              [spheres |-> [k \in 1..n |-> CandidateSphere(k)],
               packet |-> RayPacketNew(
                   [i \in Lanes |->
                       IF i % 2 = 0 THEN RayNew(o, d)
                       ELSE RayNew(o, VecScale(-1, d))]),
               tested |-> {}, scalar |-> None, simd |-> None]

\* Sphere::intersect for each sphere of the group, on the ray of its lane.
SphereScalarTest ==
    /\ "scalar" \notin sphere_test.tested
    /\ sphere_test' =
          [sphere_test EXCEPT
             !.tested = sphere_test.tested \cup {"scalar"},
             !.scalar = [i \in 0..(Len(sphere_test.spheres) - 1) |->
                            SphereIntersect(sphere_test.spheres[i + 1],
                                            LaneQuery(sphere_test.packet, i))]]
    /\ UNCHANGED <<rendererState, sceneVars, traversalVars, hit_result,
                   scalar_call, packet_call, pixel_sample>>

\* SphereSimd::from_vec(spheres, ..).intersect_packet(&packet)
SpherePacketTest ==
    /\ "simd" \notin sphere_test.tested
    /\ sphere_test' =
          [sphere_test EXCEPT
             !.tested = sphere_test.tested \cup {"simd"},
             !.simd = SphereSimdIntersectPacket(
                          SphereSimdFromVec(sphere_test.spheres),
                          sphere_test.packet)]
    /\ UNCHANGED <<rendererState, sceneVars, traversalVars, hit_result,
                   scalar_call, packet_call, pixel_sample>>

NextSphere == SphereScalarTest \/ SpherePacketTest

SpecSphere == InitSphere /\ [][NextSphere]_vars

(***************************************************************************)
(* The population of a scene with spheres of any radius the caller passes  *)
(* to Sphere::new, 0 included, and the build of its BVH.                   *)
(***************************************************************************)
\* The radii passed to Sphere::new.
Radii == {0, 1}

\* scene.objects.push(Box::new(Sphere::new(c, r, mat))), main.rs:35, for a
\* radius r of the caller's choice: Sphere::new returns a Sphere for every
\* radius, and the push takes whatever it returns.
SceneAddSphere ==
    /\ bvh = None
    /\ NothingQueried
    /\ Len(objects) < MaxObjects
    /\ \E k \in 1..MaxObjects, r \in Radii :
          /\ \A i \in DOMAIN objects : objects[i].material < k
          /\ objects' = Append(objects, SphereNew(SphereCentre(k), r, k))
    /\ UNCHANGED <<rendererState, integratorVars, bvh, query, traversalVars, hit_result>>

NextPopulate == SceneAddSphere \/ build_bvh

SpecPopulate == InitScene /\ [][NextPopulate]_vars

(***************************************************************************)
(* Properties                                                              *)
(***************************************************************************)
\* Nothing is sent any more: the flag is cleared (no operation sets it
\* again) and no task stands between its flag check and its send.
NoSendAhead ==
    /\ ~keep_rendering
    /\ \A t \in Threads : worker[t].pc # "send"

\* C1: once stop_render has finished draining (the call has returned and
\* its caller has made no further call), no result is in the channel.
C1_ChannelEmptyAfterStop ==
    \A c \in Consumers : cons[c].pc = "stop_done" => channel = << >>

\* C2: stop_render never deadlocks: no call of stop_render waits in recv()
\* on an empty channel once nothing can be sent any more.
C2_StopNeverStuck ==
    \A c \in Consumers :
        ~(cons[c].pc = "stop_recv" /\ channel = << >> /\ NoSendAhead)

\* C3: two renders of the same scene, camera, resolution and sample count
\* on one Renderer give identical output buffers at every pixel.
C3_Deterministic ==
    collected >= 2 => buffer_display_a = buffer_display_b

\* C4: when render_frame has run to completion without stop being
\* requested, the channel has received exactly one result for every pixel
\* of the image.
C4_EveryPixelOnce ==
    (frames = 1 /\ rf_pc = "idle" /\ collected = 0 /\ keep_rendering) =>
        \A x \in 0..(image_width - 1), y \in 0..(image_height - 1) :
            Cardinality({i \in DOMAIN channel :
                            channel[i].x = x /\ channel[i].y = y}) = 1

\* The pixel (x, y) lies in the rectangle of block rb.
InBlock(rb, x, y) ==
    /\ rb.x <= x /\ x < rb.x + rb.width
    /\ rb.y <= y /\ y < rb.y + rb.height

\* C5: the blocks of ImageBlocker partition the image: every pixel of the
\* image lies in exactly one block, and every block is a non-empty
\* rectangle inside the image.
C5_BlocksPartitionImage ==
    rf_pc \in {"collected", "dispatched", "traced"} =>
        /\ \A x \in 0..(image_width - 1), y \in 0..(image_height - 1) :
              Cardinality({i \in DOMAIN blocks : InBlock(blocks[i], x, y)}) = 1
        /\ \A i \in DOMAIN blocks :
              /\ blocks[i].width >= 1 /\ blocks[i].height >= 1
              /\ blocks[i].x >= 0 /\ blocks[i].y >= 0
              /\ blocks[i].x + blocks[i].width <= image_width
              /\ blocks[i].y + blocks[i].height <= image_height

C5_Witness ==
    /\ rf_pc = "collected"
    /\ Len(blocks) >= 4
    /\ image_width % block_width # 0
    /\ image_height % block_height # 0

\* C6: the spiral dispatch list holds every block of the grid exactly once.
C6_EveryBlockDispatchedOnce ==
    rf_pc = "dispatched" =>
        /\ Len(spiral_blocks) = Len(blocks)
        /\ \A i \in DOMAIN blocks :
              Cardinality({j \in DOMAIN spiral_blocks :
                              spiral_blocks[j] = blocks[i]}) = 1

\* Twice the Chebyshev distance of block rb from the centre of the block
\* grid (the centre block when a count is odd, the middle of the two
\* central blocks when it is even).
CentreDistance2(rb) ==
    LET bx == rb.x \div block_width
        by == rb.y \div block_height
    IN  Max(Abs(2 * bx - (block_count_x(image_width) - 1)),
            Abs(2 * by - (block_count_y(image_height) - 1)))

\* C7: along the dispatch list the Chebyshev distance of a block from the
\* image's centre never decreases.
C7_SpiralOutward ==
    rf_pc = "dispatched" =>
        \A i \in 1..(Len(spiral_blocks) - 1) :
            CentreDistance2(spiral_blocks[i]) <=
                CentreDistance2(spiral_blocks[i + 1])

\* C8: during a render_frame a worker's send never blocks: a task that is
\* about to send finds room in the channel.
C8_SendNeverBlocks ==
    \A t \in Threads : worker[t].pc = "send" => Len(channel) < Capacity

\* C9: poll_results never blocks: no call of poll_results waits in recv()
\* on an empty channel once nothing can be sent any more.
C9_PollNeverStuck ==
    \A c \in Consumers :
        ~(cons[c].pc = "poll_recv" /\ channel = << >> /\ NoSendAhead)

\* A task that found the flag cleared when it started: it is at its end,
\* has traced nothing and holds no result.
SkippedTask(w) ==
    w.pc # "idle" /\ w.index = 0 /\ ~w.loaded

\* C10: the flag is checked before a block task starts its work and again
\* before each send: a task that starts with the flag cleared goes straight
\* to its end with no ray traced and nothing sent, and every result that
\* enters the channel is appended by a task whose last read of the flag,
\* the step before, returned true.
C10_FlagCheckedBeforeWorkAndSend ==
    /\ [](\A t \in Threads :
            SkippedTask(worker[t]) =>
                /\ worker[t].pc = "finish"
                /\ worker[t].ray_count = 0
                /\ worker[t].result = None)
    /\ [][/\ \A t \in Threads :
               (worker[t].pc = "idle" /\ worker'[t].pc # "idle"
                    /\ ~keep_rendering)
                 => (SkippedTask(worker'[t]) /\ channel' = channel)
          /\ \A t \in Threads :
               (worker[t].pc # "send" /\ worker'[t].pc = "send")
                 => (keep_rendering /\ worker'[t].loaded)
          /\ Len(channel') > Len(channel) =>
               \E t \in Threads :
                  /\ worker[t].pc = "send"
                  /\ worker[t].loaded
                  /\ channel' = Append(channel, worker[t].result)
                  /\ worker'[t].pc # "send"]_vars

C10_Witness ==
    /\ Len(channel) > 0
    /\ \E t \in Threads : SkippedTask(worker[t])

NoSharedBlock ==
    /\ \A t, u \in Threads :
          (t # u /\ worker[t].pc # "idle" /\ worker[u].pc # "idle") =>
              ~\E x \in 0..(image_width - 1), y \in 0..(image_height - 1) :
                  InBlock(worker[t].block, x, y) /\ InBlock(worker[u].block, x, y)
    /\ \A t \in Threads :
          worker[t].pc # "idle" =>
              \A j \in DOMAIN queue : queue[j] # worker[t].block
    /\ \A i, j \in DOMAIN spiral_blocks :
          i # j => spiral_blocks[i] # spiral_blocks[j]

\* C12: within one render_frame every block is owned by exactly one task
\* (render_frame makes one task per entry of spiral_blocks), and no two
\* tasks produce output for the same block or pixel.
C12_OneTaskPerBlock ==
    rf_pc = "scoped" =>
        /\ NoSharedBlock
        /\ \A i \in DOMAIN blocks :
              Cardinality({j \in DOMAIN spiral_blocks :
                              spiral_blocks[j] = blocks[i]}) = 1

\* The results sent by the tasks of the dispatch list before the task of
\* entry j.
RECURSIVE ResultsBefore(_)
ResultsBefore(j) ==
    IF j <= 1 THEN 0
    ELSE ResultsBefore(j - 1) + num_pixels(spiral_blocks[j - 1])

\* C13: for every block (x, y, width, height) given to a task and every
\* local index i with 0 <= i < width * height, the result the task reports
\* for i has the coordinates (x + i % width, y + i / width), and these lie
\* inside the block's rectangle and inside the image.
C13_PixelCoordinates ==
    rf_pc = "traced" =>
        \A j \in DOMAIN spiral_blocks :
            LET rb == spiral_blocks[j]
            IN  \A i \in 0..(rb.width * rb.height - 1) :
                    LET k == ResultsBefore(j) + i + 1
                    IN  /\ k \in DOMAIN channel
                        /\ channel[k].x = rb.x + (i % rb.width)
                        /\ channel[k].y = rb.y + (i \div rb.width)
                        /\ InBlock(rb, channel[k].x, channel[k].y)
                        /\ channel[k].x < image_width
                        /\ channel[k].y < image_height

C13_Witness ==
    /\ rf_pc = "traced"
    /\ \E j \in DOMAIN spiral_blocks :
          spiral_blocks[j].width = block_width /\ spiral_blocks[j].height = block_height
    /\ \E j \in DOMAIN spiral_blocks :
          spiral_blocks[j].width < block_width /\ spiral_blocks[j].height = block_height
    /\ \E j \in DOMAIN spiral_blocks :
          spiral_blocks[j].width = block_width /\ spiral_blocks[j].height < block_height
    /\ Len(channel) = image_width * image_height

(***************************************************************************)
(* Properties of the traversal and of the closest-hit query                *)
(***************************************************************************)
\* The shape indices among the returns of next(), in order.
RECURSIVE Indices(_)
Indices(rets) ==
    IF rets = << >> THEN << >>
    ELSE IF Head(rets) = None THEN Indices(Tail(rets))
    ELSE <<Head(rets).some>> \o Indices(Tail(rets))

ShapeIndices == 0..(Len(objects) - 1)
ShapeBounds(i) == compute_bounds(objects[i + 1])
BoundsHit(i) == intersects_aabb(BvhRay, ShapeBounds(i))

\* Every shape whose bounds the ray hits is among the returns before the
\* first None.
NoFalseNegative(rets) ==
    \A k \in DOMAIN rets :
        rets[k] = None =>
            \A i \in ShapeIndices :
                BoundsHit(i) => \E j \in 1..(k - 1) : rets[j] = Some(i)

\* C14: the traversal has no false negatives: when next() returns None,
\* every primitive whose own bounds the ray hits has been yielded before
\* (for the iterator of bvhiter.rs and for the one of scene.rs, over trees
\* whose child boxes contain the boxes of the primitives below them).
C14_NoFalseNegatives ==
    /\ NoFalseNegative(yielded)
    /\ NoFalseNegative(scene_yielded)

C14_Witness ==
    /\ NoneCount(yielded) >= 1
    /\ NoneCount(scene_yielded) >= 1
    /\ Len(Indices(yielded)) >= 2
    /\ \E i \in ShapeIndices : ~BoundsHit(i)
    /\ \E i \in ShapeIndices : BoundsHit(i)

NoRepeat(seq) == \A j, k \in DOMAIN seq : j # k => seq[j] # seq[k]

\* C15: one traversal yields each primitive index at most once, so it
\* yields at most as many candidates as there are primitives.
C15_AtMostOnce ==
    /\ NoRepeat(Indices(yielded))
    /\ Len(Indices(yielded)) <= Len(objects)
    /\ NoRepeat(Indices(scene_yielded))
    /\ Len(Indices(scene_yielded)) <= Len(objects)

C15_Witness ==
    /\ Len(objects) = MaxObjects
    /\ Len(Indices(yielded)) >= 2
    /\ Len(Indices(scene_yielded)) >= 2
    /\ NoneCount(scene_yielded) = MaxCallsPastNone

\* The recursive traversal: at a leaf yield its shape, at a node test both
\* children and recurse into those whose box the ray hits, left first.
RECURSIVE Traverse(_, _, _)
Traverse(b, node_index, ray) ==
    LET n == NodeAt(b, node_index)
    IN  IF n.kind = "Leaf" THEN <<n.shape_index>>
        ELSE (IF intersects_aabb(ray, n.child_l_aabb)
              THEN Traverse(b, n.child_l_index, ray) ELSE << >>)
             \o (IF intersects_aabb(ray, n.child_r_aabb)
                 THEN Traverse(b, n.child_r_index, ray) ELSE << >>)

TraverseFromRoot ==
    IF NodeInRange(bvh, 0) THEN Traverse(bvh, 0, BvhRay) ELSE << >>

IsPrefix(s, t) == Len(s) <= Len(t) /\ \A k \in DOMAIN s : s[k] = t[k]

SameAsRecursive(rets) ==
    /\ IsPrefix(Indices(rets), TraverseFromRoot)
    /\ NoneCount(rets) >= 1 => Indices(rets) = TraverseFromRoot

\* C16: the explicit-stack iterator yields exactly the sequence of the
\* recursive traversal, in the same order: what it has yielded so far is a
\* prefix of that sequence, and all of it once next() has returned None.
C16_SameAsRecursive ==
    bvh # None =>
        /\ SameAsRecursive(yielded)
        /\ SameAsRecursive(scene_yielded)

C16_Witness ==
    /\ bvh # None
    /\ NoneCount(yielded) >= 1
    /\ NoneCount(scene_yielded) >= 1
    /\ Len(TraverseFromRoot) >= 2
    /\ Len(TraverseFromRoot) < Len(objects)

NearestFirst(seq) ==
    \A j, k \in DOMAIN seq :
        (j < k /\ BoundsHit(seq[j]) /\ BoundsHit(seq[k])) =>
            RayEnter(BvhRay, ShapeBounds(seq[j]))
                <= RayEnter(BvhRay, ShapeBounds(seq[k]))

\* C17 as stated: candidates are yielded nearest-bound-first: a primitive
\* whose bounds the ray enters earlier is never yielded after one whose
\* bounds the ray enters later.
C17_NearestBoundFirst ==
    /\ NearestFirst(Indices(yielded))
    /\ NearestFirst(Indices(scene_yielded))

\* The index in BVH.nodes of the leaf of shape i: leaves further left in
\* the tree have the smaller index.
LeafOf(i) ==
    CHOOSE n \in 0..(Len(bvh.nodes) - 1) :
        NodeAt(bvh, n).kind = "Leaf" /\ NodeAt(bvh, n).shape_index = i

TreeOrder(seq) ==
    \A j, k \in DOMAIN seq : j < k => LeafOf(seq[j]) < LeafOf(seq[k])

\* C17 as amended: candidates are yielded in the tree's left-to-right
\* order: a primitive of a node's left subtree is never yielded after a
\* primitive of its right subtree, whatever the distances at which the ray
\* enters their bounds.
C17_TreeOrder ==
    bvh # None =>
        /\ TreeOrder(Indices(yielded))
        /\ TreeOrder(Indices(scene_yielded))

\* A traversal has yielded a farther primitive before a nearer one.
C17_Witness ==
    /\ bvh # None
    /\ NoneCount(scene_yielded) >= 1
    /\ ~NearestFirst(Indices(yielded))
    /\ ~NearestFirst(Indices(scene_yielded))

NoCandidateNoFault(it, rets) ==
    it # None => (~it.panicked /\ Indices(rets) = << >>)

\* C18: on a BVH built from zero items and on a Scene whose BVH has not
\* been built, every traversal yields no candidate, every closest-hit
\* query returns no hit, and none of them faults.
C18_EmptyNeverFaults ==
    /\ (bvh # None /\ bvh.nodes = << >>) =>
          /\ NoCandidateNoFault(bvh_iterator, yielded)
          /\ NoCandidateNoFault(scene_iterator, scene_yielded)
    /\ ((bvh = None \/ bvh.nodes = << >>) /\ hit_result # None) =>
          /\ ~hit_result.panicked
          /\ hit_result.hit = None

\* The parameters in [t_min, t_max] at which the ray of the query is on
\* the surface of some object of the scene.
SurfaceTs ==
    {t \in query.t_min..query.t_max :
        \E i \in DOMAIN objects :
            length_squared(VecSub(RayAt(query.ray, t), objects[i].center))
                = objects[i].radius_sq}

NearestHit ==
    /\ ~hit_result.panicked
    /\ IF SurfaceTs = {} THEN hit_result.hit = None
       ELSE /\ hit_result.hit # None
            /\ hit_result.hit.t = MinOf(SurfaceTs)
            /\ query.t_min <= hit_result.hit.t
            /\ hit_result.hit.t <= query.t_max

\* C19: on a built scene Scene::intersect returns the nearest intersection:
\* a hit whose t is the least parameter in [t_min, t_max] at which the ray
\* meets a primitive, and None exactly when there is no such parameter.
C19_NearestIntersection ==
    (bvh # None /\ hit_result # None) => NearestHit

\* The same for the scenes that hold at least one object.
NearestIntersectionNonEmpty ==
    (bvh # None /\ objects # << >> /\ hit_result # None) => NearestHit

\* C20: with a depth budget of 0 or less the integrator returns pure black
\* without querying the scene or incrementing the ray count: ray_color for
\* its ray, render_packet for every lane of its packet.
C20_DepthZeroIsBlack ==
    /\ (scalar_call # None /\ scalar_call.depth <= 0) =>
          /\ scalar_call.ret.color = ColorZERO
          /\ scalar_call.ret.ray_count = 0
          /\ scalar_call.ret.queries = 0
          /\ ~scalar_call.ret.panicked
    /\ (packet_call # None /\ packet_call.depth <= 0) =>
          /\ \A i \in Lanes : packet_call.ret.colors[i] = ColorZERO
          /\ packet_call.ret.ray_count = 0
          /\ packet_call.ret.queries = 0
          /\ ~packet_call.ret.panicked

\* Both calls made with budget 0 on a built scene in which the query's ray
\* has a hit.
C20_Witness ==
    /\ scalar_call # None /\ scalar_call.depth = 0
    /\ packet_call # None /\ packet_call.depth = 0
    /\ bvh # None
    /\ SceneIntersect(objects, bvh,
                      [ray |-> query.ray, t_min |-> TRACE_EPSILON,
                       t_max |-> TRACE_INFINITY]).hit # None

(***************************************************************************)
(* Properties of the supersampling of a pixel                              *)
(***************************************************************************)
\* C21: for every samples_per_pixel >= 1, also one that is not a multiple
\* of the packet size, exactly samples_per_pixel primary rays are traced
\* for the pixel and its colour is the sum of their results divided by
\* samples_per_pixel.
C21_EverySampleTraced ==
    pixel_sample.pc = "done" =>
        /\ pixel_sample.primary_rays = pixel_sample.samples_per_pixel
        /\ pixel_sample.color = [sum |-> pixel_sample.color_accum,
                                 over |-> pixel_sample.samples_per_pixel]

\* The same for the values of samples_per_pixel that the packets divide.
EverySampleTracedOfWholePackets ==
    (pixel_sample.samples_per_pixel % RaysPerPass = 0) => C21_EverySampleTraced

(***************************************************************************)
(* Properties of the integrator                                            *)
(***************************************************************************)
\* ray_color applied to the ray of lane i alone, with the depth and the
\* scatter outcomes of the packet's call.
ScalarOfLane(i) ==
    ray_color(PacketRays[i], objects, bvh, packet_call.depth, 0, 0,
              packet_call.seed)

\* C22: the packet integrator computes the same per-ray radiance as the
\* scalar one: lane i of render_packet's result equals ray_color applied
\* to ray i alone, also when lanes end at different depths; and the packet
\* call faults exactly when one of the scalar calls does.
C22_PacketEqualsScalar ==
    packet_call # None =>
        LET scalar == [i \in Lanes |-> ScalarOfLane(i)]
        IN  /\ packet_call.ret.panicked <=>
                   \E i \in Lanes : scalar[i].panicked
            /\ ~packet_call.ret.panicked =>
                   \A i \in Lanes :
                       packet_call.ret.colors[i] = scalar[i].color

\* A packet whose lanes end at different depths: one at the first query,
\* one at the second, one that is still scattered at the end of the budget.
C22_Witness ==
    /\ packet_call # None
    /\ packet_call.depth = 2
    /\ ~packet_call.ret.panicked
    /\ \E i, j \in Lanes :
          /\ ScalarOfLane(i).queries = 1
          /\ ScalarOfLane(j).queries = 2
          /\ ScalarOfLane(j).color # ColorZERO
          /\ packet_call.ret.colors[i] # packet_call.ret.colors[j]
    /\ packet_call.ret.packet.ray_live_count > 0

(***************************************************************************)
(* Properties of the scene under rendering                                 *)
(***************************************************************************)
\* C23: rendering never changes the Scene: in every state of a render,
\* running, completed or cancelled, with results polled or not, the
\* primitive collection and the built BVH are those the Renderer was
\* given, and the BVH is a tree over the primitives.
C23_SceneUnchanged ==
    /\ objects = one_weekend_scene.objects
    /\ bvh = one_weekend_scene.bvh
    /\ bvh \in BVHs(objects)

\* A cancelled render has ended after some of its tasks traced pixels,
\* whose results are on the channel, and every call has returned.
C23_Witness ==
    /\ objects # << >>
    /\ bvh # None
    /\ frames >= 1
    /\ rf_pc = "idle"
    /\ ~keep_rendering
    /\ channel # << >>
    /\ \A t \in Threads : worker[t].pc = "idle"
    /\ \A c \in Consumers : cons[c].pc = "idle"

\* The same for the traversals and the closest-hit query: once the BVH is
\* built no step changes the primitives or the BVH.
SceneUnchangedByQueries ==
    [][bvh # None => (objects' = objects /\ bvh' = bvh)]_vars

(***************************************************************************)
(* Properties of the iterator's stack and of the end of a traversal        *)
(***************************************************************************)
\* The depth of the tree below node i: 0 at a leaf.
RECURSIVE DepthBelow(_, _)
DepthBelow(b, i) ==
    LET n == NodeAt(b, i)
    IN  IF n.kind = "Leaf" THEN 0
        ELSE 1 + Max(DepthBelow(b, n.child_l_index),
                     DepthBelow(b, n.child_r_index))

\* The depth of node `target` below node i, -1 if it is not below it.
RECURSIVE DepthOf(_, _, _)
DepthOf(b, i, target) ==
    IF i = target THEN 0
    ELSE LET n == NodeAt(b, i)
         IN  IF n.kind = "Leaf" THEN -1
             ELSE LET l == DepthOf(b, n.child_l_index, target)
                      r == DepthOf(b, n.child_r_index, target)
                  IN  IF l >= 0 THEN l + 1
                      ELSE IF r >= 0 THEN r + 1 ELSE -1

IsTree == bvh # None /\ bvh.nodes # << >>

StackWithinBounds(it, size, node) ==
    /\ it.stack_fault = "none"
    /\ it.stack_high <= DepthBelow(bvh, 0) + 1
    /\ it.stack_high <= StackCapacity
    /\ size <= DepthOf(bvh, 0, node) + 1

\* C24: during the traversal of a tree of depth at most 31 the stack index
\* stays within bounds: stack_push never writes at index 32 or beyond (the
\* stack size is at most the depth of the current node plus one, and at
\* most 32) and stack_pop is never executed on an empty stack.
C24_StackWithinBounds ==
    (IsTree /\ DepthBelow(bvh, 0) <= StackCapacity - 1) =>
        /\ bvh_iterator # None =>
              StackWithinBounds(bvh_iterator, bvh_iterator.stack_size,
                                bvh_iterator.node_index)
        /\ scene_iterator # None =>
              StackWithinBounds(scene_iterator, scene_iterator.current_stack,
                                scene_iterator.current_node)

\* A traversal to the end of a tree of the largest depth, in which the
\* stack has been as high as the tree is deep, plus one.
C24_Witness ==
    /\ IsTree
    /\ DepthBelow(bvh, 0) = MaxObjects - 1
    /\ bvh_iterator # None
    /\ bvh_iterator.stack_high = DepthBelow(bvh, 0) + 1
    /\ bvh_iterator.stack_ops > bvh_iterator.stack_high
    /\ NoneCount(yielded) >= 1

\* The returns of a traversal of a tree: no fault, the first None after at
\* most as many calls as there are primitives, plus one, and nothing but
\* None after a None.
FiniteSinglePass(it, rets) ==
    it # None =>
        /\ ~it.panicked
        /\ NoneCount(rets) = 0 => Len(rets) <= Len(objects)
        /\ \A j, k \in DOMAIN rets :
               (j < k /\ rets[j] = None) => rets[k] = None

\* A call of next() after a None: it returns None and leaves the iterator,
\* its stack and the count of stack operations as they were.
NoneStaysNone ==
    /\ (bvh_iterator # None /\ NoneCount(yielded) >= 1
            /\ yielded' # yielded) =>
          (yielded' = Append(yielded, None) /\ bvh_iterator' = bvh_iterator)
    /\ (scene_iterator # None /\ NoneCount(scene_yielded) >= 1
            /\ scene_yielded' # scene_yielded) =>
          (scene_yielded' = Append(scene_yielded, None)
              /\ scene_iterator' = scene_iterator)

\* C25: the traversal is a finite, single-pass sequence: on every tree
\* and for every ray the calls of next() return None after finitely many
\* calls, and once next() has returned None every later call returns None
\* without touching the stack.
C25_FiniteSinglePass ==
    /\ [](IsTree => /\ FiniteSinglePass(bvh_iterator, yielded)
                    /\ FiniteSinglePass(scene_iterator, scene_yielded))
    /\ [][IsTree => NoneStaysNone]_vars

\* Calls of next() were made after the first None of a traversal that
\* yielded several candidates.
C25_Witness ==
    /\ IsTree
    /\ Len(Indices(yielded)) >= 2
    /\ NoneCount(yielded) >= 2
    /\ NoneCount(scene_yielded) >= 2
    /\ bvh_iterator.stack_ops > 0

(***************************************************************************)
(* Properties of the loop of Scene::intersect                              *)
(***************************************************************************)
Searched == hit_result # None /\ ~hit_result.panicked

\* C26: during one closest-hit search query.t_max never increases: after
\* each candidate it is at most what it was before, it starts at the
\* query's t_max and is handed on from candidate to candidate, and
\* whenever a hit has been recorded it equals the t of the closest hit
\* found so far.
C26_TMaxNeverIncreases ==
    Searched =>
        LET steps == hit_result.steps
        IN  \A k \in DOMAIN steps :
                /\ steps[k].t_max_after <= steps[k].t_max
                /\ steps[k].t_max = IF k = 1 THEN query.t_max
                                    ELSE steps[k - 1].t_max_after
                /\ steps[k].closest # None =>
                       steps[k].t_max_after = steps[k].closest.t

\* A search in which t_max was shortened twice.
C26_Witness ==
    /\ Searched
    /\ \E j, k \in DOMAIN hit_result.steps :
          /\ j < k
          /\ hit_result.steps[j].t_max_after < hit_result.steps[j].t_max
          /\ hit_result.steps[k].t_max_after < hit_result.steps[k].t_max

\* The candidates of the search whose test gave a hit.
HitSteps == {k \in DOMAIN hit_result.steps : hit_result.steps[k].hit # None}

\* C27: when two candidates are hit at exactly the same t, Scene::intersect
\* returns the hit of the one the traversal yielded first: the result is
\* the hit of the first candidate, in the order of the traversal, among
\* those hit at the least t, and a later hit has replaced the closest one
\* only when its t was strictly smaller.
C27_FirstFoundWinsTie ==
    Searched =>
        LET steps == hit_result.steps
        IN  /\ HitSteps # {} =>
                  LET least == MinOf({steps[k].hit.t : k \in HitSteps})
                      first == MinOf({k \in HitSteps : steps[k].hit.t = least})
                  IN  hit_result.hit = steps[first].hit
            /\ \A k \in HitSteps :
                  (k > 1 /\ steps[k - 1].closest # None
                         /\ steps[k].closest # steps[k - 1].closest) =>
                      steps[k].hit.t < steps[k - 1].closest.t

\* Two primitives were hit at the same t, which is the least.
C27_Witness ==
    /\ Searched
    /\ \E j, k \in HitSteps :
          /\ j < k
          /\ hit_result.steps[j].hit.t = hit_result.steps[k].hit.t
          /\ hit_result.steps[j].hit.material # hit_result.steps[k].hit.material
          /\ hit_result.hit = hit_result.steps[j].hit

\* C28: after a hit has shortened t_max, the traversal yields no primitive
\* whose box the ray enters only beyond t_max: the box tests reject the
\* nodes that lie farther than the closest hit found so far.
C28_FartherNodesRejected ==
    Searched =>
        \A k \in DOMAIN hit_result.steps :
            hit_result.steps[k].t_max < query.t_max =>
                RayEnter(BvhRay, ShapeBounds(hit_result.steps[k].shape_idx))
                    <= hit_result.steps[k].t_max

(***************************************************************************)
(* Properties of the integrator's recursion                                *)
(***************************************************************************)
\* The depth arguments go down by exactly one from call to call, from the
\* budget of the outermost call, and there are at most depth + 1 calls.
DepthsCountDown(depth, depths) ==
    /\ depths[1] = depth
    /\ \A k \in 1..(Len(depths) - 1) : depths[k + 1] = depths[k] - 1
    /\ Len(depths) <= depth + 1

\* C29: the integrator's recursion is bounded by the depth budget: a call
\* with depth d >= 0 ends after at most d scene queries, ray_count has
\* grown by at most d for ray_color and by at most 4 * d for render_packet
\* (both start at 0), and the depth argument goes down by exactly 1 at
\* each recursive call.
C29_RecursionBounded ==
    /\ (scalar_call # None /\ scalar_call.depth >= 0) =>
          /\ scalar_call.ret.queries <= scalar_call.depth
          /\ scalar_call.ret.ray_count <= scalar_call.depth
          /\ DepthsCountDown(scalar_call.depth, scalar_call.ret.depths)
    /\ (packet_call # None /\ packet_call.depth >= 0) =>
          /\ packet_call.ret.queries <= packet_call.depth
          /\ packet_call.ret.ray_count
                <= TRACE_PACKET_SIZE * packet_call.depth
          /\ DepthsCountDown(packet_call.depth, packet_call.ret.depths)

\* Calls that used their whole budget: ray_color made as many queries as
\* its depth, render_packet counted four rays per level and was cut off by
\* the budget with a lane still scattered.
C29_Witness ==
    /\ scalar_call # None /\ packet_call # None
    /\ scalar_call.depth = MaxDepth
    /\ scalar_call.ret.queries = MaxDepth
    /\ packet_call.ret.ray_count = TRACE_PACKET_SIZE * MaxDepth
    /\ Len(packet_call.ret.depths) = MaxDepth + 1
    /\ packet_call.ret.packet.ray_live_count > 0

\* The query ray_color makes for the ray of its call, and what the hit's
\* material makes of it.
FirstQuery ==
    SceneIntersect(objects, bvh, [ray |-> query.ray, t_min |-> TRACE_EPSILON,
                                  t_max |-> TRACE_INFINITY])
FirstScatter == Scatter(scalar_call.seed, query.ray, FirstQuery.hit)

\* The colour of the ray_color call for a scattered ray, with the budget
\* less one.
ScatteredColor(scattered_ray) ==
    ray_color(scattered_ray, objects, bvh, scalar_call.depth - 1, 0, 0,
              scalar_call.seed).color

\* C30: for depth > 0 ray_color returns the background term, a function of
\* the ray's direction only, when the scene query finds no hit; black when
\* the scatter of the hit's material returns None; and the attenuation
\* multiplied component by component with ray_color(scattered_ray,
\* depth - 1) when it returns Some.
C30_RayColorCases ==
    (scalar_call # None /\ scalar_call.depth > 0) =>
        LET color == scalar_call.ret.color
            first == FirstQuery
        IN  \/ first.panicked
            \/ IF first.hit = None
               THEN \A o \in RayOrigins :
                       color = Background(RayNew(o, query.ray.direction))
               ELSE LET scatter == Scatter(scalar_call.seed, query.ray,
                                           first.hit)
                    IN  IF scatter = None
                        THEN color = ColorZERO
                        ELSE LET rec == ScatteredColor(scatter.scattered_ray)
                             IN  /\ color.x = scatter.attenuation.x * rec.x
                                 /\ color.y = scatter.attenuation.y * rec.y
                                 /\ color.z = scatter.attenuation.z * rec.z

\* A call whose ray was scattered by a hit and then left the scene: the
\* colour is the attenuated background of the scattered ray.
C30_Witness ==
    /\ scalar_call # None
    /\ scalar_call.depth = MaxDepth
    /\ ~FirstQuery.panicked
    /\ FirstQuery.hit # None
    /\ FirstScatter # None
    /\ ScatteredColor(FirstScatter.scattered_ray) # ColorZERO
    /\ FirstScatter.attenuation.x # FirstScatter.attenuation.y
    /\ scalar_call.ret.queries = 2


\* C31: for every lane that holds a sphere, SphereSimd::intersect_packet
\* returns the t of the hit Sphere::intersect returns for the lane's ray,
\* and miss exactly when Sphere::intersect returns None.
SameRoot(hit_option, t) ==
    IF hit_option = None THEN t = miss ELSE t = hit_option.t

BothTested == sphere_test # None /\ sphere_test.tested = {"scalar", "simd"}

C31_PacketSphereTestAgrees ==
    BothTested =>
        \A i \in DOMAIN sphere_test.scalar :
            SameRoot(sphere_test.scalar[i], sphere_test.simd[i])

\* What holds of the two tests: they agree on every lane whose ray starts
\* outside the sphere of the lane and does not graze it.
StartsOutside(sphere, ray) ==
    LET oc == VecSub(ray.origin, sphere.center)
        half_b == dot(oc, ray.direction)
        c == length_squared(oc) - sphere.radius_sq
    IN  c > 0 /\ half_b * half_b - ray.direction_length_squared * c # 0

PacketSphereTestAgreesFromOutside ==
    BothTested =>
        \A i \in DOMAIN sphere_test.scalar :
            StartsOutside(sphere_test.spheres[i + 1],
                          sphere_test.packet.rays[i])
                => SameRoot(sphere_test.scalar[i], sphere_test.simd[i])


\* C32: no sphere of radius 0, whose radius reciprocal is infinite, is ever
\* stored in the scene: Sphere::new rejects it.
Degenerate(sphere) == sphere.radius = 0 \/ sphere.radius_rcp = F32Infinity

C32_DegenerateRejected ==
    \A i \in DOMAIN objects : ~Degenerate(objects[i])


\* C33: in every state of the packet that render_packet goes through,
\* ray_live_count is the number of lanes whose is_ray_live is true;
\* end_ray is applied to a live lane only, so the count never goes below
\* zero, and a lane that was ended is never live again.
LiveCountKept(op) ==
    /\ op.count_before = Cardinality(op.live_before)
    /\ op.count_after = Cardinality(op.live_after)
    /\ op.count_after >= 0
    /\ op.op = "end_ray" => op.lane \in op.live_before
    /\ op.live_after \subseteq op.live_before

C33_LiveCountIsLiveLanes ==
    packet_call # None =>
        LET ret == packet_call.ret
        IN  /\ \A k \in DOMAIN ret.ops : LiveCountKept(ret.ops[k])
            /\ \A k \in 1..(Len(ret.ops) - 1) :
                  /\ ret.ops[k + 1].live_before = ret.ops[k].live_after
                  /\ ret.ops[k + 1].count_before = ret.ops[k].count_after
            /\ ret.packet.ray_live_count = Cardinality(LiveLanes(ret.packet))

\* A call in which lanes were ended at different depths and a lane that
\* was scattered at the first depth outlived another.
C33_Witness ==
    /\ packet_call # None
    /\ LET ops == packet_call.ret.ops
       IN  /\ \E j, k \in DOMAIN ops :
                 /\ j < k
                 /\ ops[j].op = "end_ray"
                 /\ ops[k].op = "end_ray"
                 /\ \E u \in DOMAIN ops :
                       j < u /\ u < k /\ ops[u].op = "update_ray"
           /\ packet_call.ret.packet.ray_live_count = 0


\* C34: Stopped is terminal: once keep_rendering is false no step makes it
\* true again, and a render_frame that is called after that delivers
\* nothing: none of its tasks traces a pixel or sends, and the channel
\* gets no result while the frame runs.
StoppedFrame == rf_pc = "scoped" /\ ~frame_live

C34_StoppedIsTerminal ==
    /\ [][~keep_rendering => ~keep_rendering']_vars
    /\ [](StoppedFrame =>
            /\ ~keep_rendering
            /\ \A t \in Threads :
                  /\ worker[t].pc \notin {"pixel", "send"}
                  /\ worker[t].sent = 0
                  /\ worker[t].ray_count = 0)
    /\ [][StoppedFrame => Len(channel') <= Len(channel)]_vars

\* A frame called after stop_render, all its tasks handed out, one of them
\* at its end without having looked at a pixel.
C34_Witness ==
    /\ StoppedFrame
    /\ queue = << >>
    /\ \E t \in Threads : SkippedTask(worker[t])


\* C35: every call of render_frame returns in the end, also when nothing
\* is taken from the channel between or during the calls.
C35_EveryFrameReturns == (rf_pc = "scoped") ~> (rf_pc = "idle")

\* What holds: a frame that starts with an empty channel returns.
FrameOnEmptyChannelReturns ==
    (rf_pc = "scoped" /\ frames = 1) ~> (rf_pc = "idle")

\* Where the second frame stays: a task waits in send on a channel that
\* holds the whole first frame.
SecondFrameStuck ==
    /\ frames = 2
    /\ rf_pc = "scoped"
    /\ Len(channel) = Capacity
    /\ \E t \in Threads : worker[t].pc = "send"

==============================================================================
